---- MODULE Spec2Model ----
(***************************************************************************)
(* A model of kagi (src/main.go): the command line client of the Kagi      *)
(* FastGPT API.  The response rendering pipeline (formatOutput and the     *)
(* three renderers), the format normalisation of loadConfig and the JSON   *)
(* encoding and decoding of encoding/json that the renderers and queryKagi *)
(* rely on.                                                                *)
(*                                                                         *)
(* A Go string is a sequence of characters; each character is a TLA+       *)
(* string of length one, except the escape character 0x1B, written "ESC".  *)
(***************************************************************************)
EXTENDS Integers, Sequences, FiniteSets, TLC

VARIABLES
    flags,             \* the cobra flag variables
    env,               \* KAGI_API_KEY, the arguments and standard input
    reply,             \* what the API call will meet: failure, status, body
    stdout,            \* the writes to standard output, in order
    stderr,            \* the writes to standard error, in order
    resp,              \* the FastGPTResponse handed to formatOutput
    config,            \* the Config handed to formatOutput
    stdoutIsTerminal,  \* term.IsTerminal(os.Stdout.Fd())
    pc,                \* position of the run
    output,            \* the string formatOutput returned
    err,               \* the error formatOutput / loadConfig returned
    sigChan,           \* the signals buffered in sigChan (capacity 1)
    handler,           \* position of the signal-handler goroutine of main
    delivered,         \* the signals the process was sent
    exited,            \* whether the process has ended
    exitCode           \* the exit code, once it has ended

vars == <<flags, env, reply, stdout, stderr, resp, config, stdoutIsTerminal, pc,
          output, err, sigChan, handler, delivered, exited, exitCode>>

\* the state of main around the command
procVars == <<sigChan, handler, delivered, exited, exitCode>>

----------------------------------------------------------------------------
(* Bounds of the model *)

\* longest answer text (Data.Output) drawn
MaxLen == 1

\* largest number of references of a response
MaxRefs == 2

----------------------------------------------------------------------------
(* Strings *)

NL == "\n"

ESC == "ESC"

\* the strings over alphabet A of length at most n
RECURSIVE StringsUpTo(_, _)
StringsUpTo(A, n) ==
    IF n = 0 THEN {<<>>}
    ELSE LET shorter == StringsUpTo(A, n - 1)
         IN  shorter \cup {Append(s, c) : s \in shorter, c \in A}

HasPrefix(s, p) ==
    /\ Len(p) <= Len(s)
    /\ SubSeq(s, 1, Len(p)) = p

\* strings.Contains
Contains(s, sub) ==
    \E i \in 1..(Len(s) - Len(sub) + 1) : SubSeq(s, i, i + Len(sub) - 1) = sub

UpperLetters ==
    <<"A", "B", "C", "D", "E", "F", "G", "H", "I", "J", "K", "L", "M",
      "N", "O", "P", "Q", "R", "S", "T", "U", "V", "W", "X", "Y", "Z">>

LowerLetters ==
    <<"a", "b", "c", "d", "e", "f", "g", "h", "i", "j", "k", "l", "m",
      "n", "o", "p", "q", "r", "s", "t", "u", "v", "w", "x", "y", "z">>

\* unicode.ToLower on one character
ToLowerChar(c) ==
    IF \E i \in 1..Len(UpperLetters) : UpperLetters[i] = c
    THEN LowerLetters[CHOOSE i \in 1..Len(UpperLetters) : UpperLetters[i] = c]
    ELSE c

\* strings.ToLower
ToLower(s) == [i \in 1..Len(s) |-> ToLowerChar(s[i])]

\* unicode.IsSpace on the characters of the model
IsSpace(c) == c \in {" ", "\t", "\n", "\r", "\f"}

RECURSIVE TrimLeft(_)
TrimLeft(s) ==
    IF s # <<>> /\ IsSpace(Head(s)) THEN TrimLeft(Tail(s)) ELSE s

RECURSIVE TrimRight(_)
TrimRight(s) ==
    IF s # <<>> /\ IsSpace(s[Len(s)]) THEN TrimRight(SubSeq(s, 1, Len(s) - 1)) ELSE s

\* strings.TrimSpace
TrimSpace(s) == TrimRight(TrimLeft(s))

\* strings.Join
RECURSIVE Join(_, _)
Join(elems, sep) ==
    IF elems = <<>> THEN <<>>
    ELSE IF Len(elems) = 1 THEN elems[1]
    ELSE elems[1] \o sep \o Join(Tail(elems), sep)

Digits == <<"0", "1", "2", "3", "4", "5", "6", "7", "8", "9">>

RECURSIVE NatToString(_)
NatToString(n) ==
    IF n < 10 THEN <<Digits[n + 1]>>
    ELSE Append(NatToString(n \div 10), Digits[(n % 10) + 1])

\* the %d verb of fmt and the integer encoding of encoding/json
IntToString(n) == IF n < 0 THEN <<"-">> \o NatToString(-n) ELSE NatToString(n)

----------------------------------------------------------------------------
(* Constants of main.go *)

defaultTimeout == 30

exitSuccess == 0
exitError == 1
exitInterrupt == 130

formatText == <<"t", "e", "x", "t">>
formatMarkdown == <<"m", "d">>
formatJSON == <<"j", "s", "o", "n">>

colorAuto == <<"a", "u", "t", "o">>
colorAlways == <<"a", "l", "w", "a", "y", "s">>
colorNever == <<"n", "e", "v", "e", "r">>

ansiReset == <<ESC, "[", "0", "m">>
ansiBold == <<ESC, "[", "1", "m">>
ansiBoldBlue == <<ESC, "[", "1", ";", "3", "4", "m">>
ansiCyan == <<ESC, "[", "3", "6", "m">>
ansiYellow == <<ESC, "[", "3", "3", "m">>

\* an error value: its message and what the message was formatted with
Error(msg) == [msg |-> msg]

\* the nil error
NoError == Error("nil")

----------------------------------------------------------------------------
(* Data: FastGPTResponse, Reference, Config *)

\* A Go slice []Reference: nil, or a (possibly empty) sequence of elements.
\* len() of either is Len(elems); a nil slice has no elements.
NilSlice == [isNil |-> TRUE, elems |-> <<>>]

SliceOf(elems) == [isNil |-> FALSE, elems |-> elems]

Reference(title, snippet, url) == [Title |-> title, Snippet |-> snippet, URL |-> url]

FastGPTResponse(id, node, ms, out, tokens, refs) ==
    [Meta |-> [ID |-> id, Node |-> node, MS |-> ms],
     Data |-> [Output |-> out, Tokens |-> tokens, References |-> refs]]

\* the zero value of FastGPTResponse (var apiResp FastGPTResponse)
ZeroResponse == FastGPTResponse(<<>>, <<>>, 0, <<>>, 0, NilSlice)

Config(apiKey, query, format, timeout, heading, quiet, color, verbose, debug) ==
    [APIKey |-> apiKey, Query |-> query, Format |-> format, Timeout |-> timeout,
     Heading |-> heading, Quiet |-> quiet, Color |-> color,
     Verbose |-> verbose, Debug |-> debug]

----------------------------------------------------------------------------
(* Color policy *)

\* shouldUseColor with auto taken as always
shouldUseColor_AutoAlways(cfg) ==
    CASE cfg.Color = colorAlways -> TRUE
      [] cfg.Color = colorNever -> FALSE
      [] cfg.Color = colorAuto -> TRUE
      [] OTHER -> FALSE

shouldUseColor(cfg) ==
    CASE cfg.Color = colorAlways -> TRUE
      [] cfg.Color = colorNever -> FALSE
      [] cfg.Color = colorAuto -> stdoutIsTerminal
      [] OTHER -> FALSE

\* colorize leaving an empty text without codes
colorize_SkipsEmpty(text, colorCode, useColor) ==
    IF ~useColor \/ text = <<>> THEN text ELSE colorCode \o text \o ansiReset

colorize(text, colorCode, useColor) ==
    IF ~useColor THEN text ELSE colorCode \o text \o ansiReset

----------------------------------------------------------------------------
(* Text renderer *)

\* TextRefLine numbering with the loop index itself, which starts at 0
TextRefLine_ZeroBased(i, ref, useColor) ==
    colorize(IntToString(i - 1) \o <<".", " ">>, ansiYellow, useColor)
    \o ref.Title
    \o <<" ", "-", " ">>
    \o colorize(ref.URL, ansiCyan, useColor)
    \o (IF ref.Snippet # <<>> THEN <<" ", "-", " ">> \o ref.Snippet ELSE <<>>)
    \o <<NL>>

\* TextRefLine with the title styled as well
TextRefLine_StylesTitle(i, ref, useColor) ==
    colorize(IntToString(i) \o <<".", " ">>, ansiYellow, useColor)
    \o colorize(ref.Title, ansiBold, useColor)
    \o <<" ", "-", " ">>
    \o colorize(ref.URL, ansiCyan, useColor)
    \o (IF ref.Snippet # <<>> THEN <<" ", "-", " ">> \o ref.Snippet ELSE <<>>)
    \o <<NL>>

\* one pass of the loop over resp.Data.References in formatText_output
TextRefLine(i, ref, useColor) ==
    colorize(IntToString(i) \o <<".", " ">>, ansiYellow, useColor)
    \o ref.Title
    \o <<" ", "-", " ">>
    \o colorize(ref.URL, ansiCyan, useColor)
    \o (IF ref.Snippet # <<>> THEN <<" ", "-", " ">> \o ref.Snippet ELSE <<>>)
    \o <<NL>>

\* the loop over resp.Data.References, from element i on
RECURSIVE TextRefLines(_, _, _)
TextRefLines(refs, i, useColor) ==
    IF i > Len(refs) THEN <<>>
    ELSE TextRefLine(i, refs[i], useColor) \o TextRefLines(refs, i + 1, useColor)

StrReferences == <<"R", "e", "f", "e", "r", "e", "n", "c", "e", "s", ":">>

\* formatText_output with its two conditions on Quiet left out of the
\* references block: quiet output keeps the references
formatText_output_QuietKeepsReferences(r, cfg) ==
    LET useColor == shouldUseColor(cfg)
        heading  == IF cfg.Heading /\ ~cfg.Quiet
                    THEN colorize(<<"#", " ">> \o cfg.Query, ansiBoldBlue, useColor)
                         \o <<NL, NL>>
                    ELSE <<>>
        refs     == r.Data.References.elems
        refPart  == IF Len(refs) > 0
                    THEN <<NL>> \o colorize(StrReferences, ansiBold, useColor)
                         \o <<NL, NL>> \o TextRefLines(refs, 1, useColor)
                    ELSE <<>>
    IN  heading \o r.Data.Output \o <<NL>> \o refPart

\* formatText_output with the references block written whenever the output
\* is not quiet, also for a response without references
formatText_output_HeaderWithoutReferences(r, cfg) ==
    LET useColor == shouldUseColor(cfg)
        heading  == IF cfg.Heading /\ ~cfg.Quiet
                    THEN colorize(<<"#", " ">> \o cfg.Query, ansiBoldBlue, useColor)
                         \o <<NL, NL>>
                    ELSE <<>>
        refs     == r.Data.References.elems
        refPart  == IF ~cfg.Quiet
                    THEN <<NL>> \o colorize(StrReferences, ansiBold, useColor)
                         \o <<NL, NL>> \o TextRefLines(refs, 1, useColor)
                    ELSE <<>>
    IN  heading \o r.Data.Output \o <<NL>> \o refPart

\* formatText_output with the heading decided by the Heading flag alone
formatText_output_HeadingIgnoresQuiet(r, cfg) ==
    LET useColor == shouldUseColor(cfg)
        heading  == IF cfg.Heading
                    THEN colorize(<<"#", " ">> \o cfg.Query, ansiBoldBlue, useColor)
                         \o <<NL, NL>>
                    ELSE <<>>
        refs     == r.Data.References.elems
        refPart  == IF ~cfg.Quiet /\ Len(refs) > 0
                    THEN <<NL>> \o colorize(StrReferences, ansiBold, useColor)
                         \o <<NL, NL>> \o TextRefLines(refs, 1, useColor)
                    ELSE <<>>
    IN  heading \o r.Data.Output \o <<NL>> \o refPart

\* formatText_output without the newline after the answer
formatText_output_NoNewline(r, cfg) ==
    LET useColor == shouldUseColor(cfg)
        heading  == IF cfg.Heading /\ ~cfg.Quiet
                    THEN colorize(<<"#", " ">> \o cfg.Query, ansiBoldBlue, useColor)
                         \o <<NL, NL>>
                    ELSE <<>>
        refs     == r.Data.References.elems
        refPart  == IF ~cfg.Quiet /\ Len(refs) > 0
                    THEN <<NL>> \o colorize(StrReferences, ansiBold, useColor)
                         \o <<NL, NL>> \o TextRefLines(refs, 1, useColor)
                    ELSE <<>>
    IN  heading \o r.Data.Output \o refPart

formatText_output(r, cfg) ==
    LET useColor == shouldUseColor(cfg)
        heading  == IF cfg.Heading /\ ~cfg.Quiet
                    THEN colorize(<<"#", " ">> \o cfg.Query, ansiBoldBlue, useColor)
                         \o <<NL, NL>>
                    ELSE <<>>
        refs     == r.Data.References.elems
        refPart  == IF ~cfg.Quiet /\ Len(refs) > 0
                    THEN <<NL>> \o colorize(StrReferences, ansiBold, useColor)
                         \o <<NL, NL>> \o TextRefLines(refs, 1, useColor)
                    ELSE <<>>
    IN  heading \o r.Data.Output \o <<NL>> \o refPart

----------------------------------------------------------------------------
(* Markdown renderer *)

\* MarkdownRefLines without the test for an empty snippet
MarkdownRefLines_AlwaysBlockquote(i, ref) ==
    IntToString(i) \o <<".", " ", "[">> \o ref.Title \o <<"]", "(">> \o ref.URL
    \o <<")", NL>>
    \o <<" ", " ", " ", ">", " ">> \o ref.Snippet \o <<NL>>

\* one pass of the loop over resp.Data.References in formatMarkdown_output
MarkdownRefLines(i, ref) ==
    IntToString(i) \o <<".", " ", "[">> \o ref.Title \o <<"]", "(">> \o ref.URL
    \o <<")", NL>>
    \o (IF ref.Snippet # <<>>
        THEN <<" ", " ", " ", ">", " ">> \o ref.Snippet \o <<NL>>
        ELSE <<>>)

RECURSIVE MarkdownRefs(_, _)
MarkdownRefs(refs, i) ==
    IF i > Len(refs) THEN <<>>
    ELSE MarkdownRefLines(i, refs[i]) \o MarkdownRefs(refs, i + 1)

StrMdReferences ==
    <<"#", "#", " ", "R", "e", "f", "e", "r", "e", "n", "c", "e", "s">>

\* formatMarkdown_output with the references section written also for a
\* response without references
formatMarkdown_output_HeaderWithoutReferences(r, cfg) ==
    IF cfg.Quiet
    THEN r.Data.Output \o <<NL>>
    ELSE <<"#", " ">> \o cfg.Query \o <<NL, NL>>
         \o r.Data.Output \o <<NL>>
         \o <<NL>> \o StrMdReferences \o <<NL, NL>>
         \o MarkdownRefs(r.Data.References.elems, 1)

\* formatMarkdown_output with the heading shown only on the Heading flag, as
\* the text renderer does
formatMarkdown_output_HeadingFlag(r, cfg) ==
    IF cfg.Quiet
    THEN r.Data.Output \o <<NL>>
    ELSE LET refs == r.Data.References.elems
         IN  (IF cfg.Heading THEN <<"#", " ">> \o cfg.Query \o <<NL, NL>> ELSE <<>>)
             \o r.Data.Output \o <<NL>>
             \o (IF Len(refs) > 0
                 THEN <<NL>> \o StrMdReferences \o <<NL, NL>> \o MarkdownRefs(refs, 1)
                 ELSE <<>>)

formatMarkdown_output(r, cfg) ==
    IF cfg.Quiet
    THEN r.Data.Output \o <<NL>>
    ELSE LET refs == r.Data.References.elems
         IN  <<"#", " ">> \o cfg.Query \o <<NL, NL>>
             \o r.Data.Output \o <<NL>>
             \o (IF Len(refs) > 0
                 THEN <<NL>> \o StrMdReferences \o <<NL, NL>> \o MarkdownRefs(refs, 1)
                 ELSE <<>>)

----------------------------------------------------------------------------
(* encoding/json: Marshal, Indent, MarshalIndent *)

\* the grave accent, code 96, which a string literal here cannot hold
GRAVE == "GRAVE"

\* the printable ASCII characters, code 32 (space) to 126 (~)
Ascii ==
    <<" ", "!", "\"", "#", "$", "%", "&", "'", "(", ")", "*", "+", ",", "-", ".", "/",
      "0", "1", "2", "3", "4", "5", "6", "7", "8", "9", ":", ";", "<", "=", ">", "?",
      "@", "A", "B", "C", "D", "E", "F", "G", "H", "I", "J", "K", "L", "M", "N", "O",
      "P", "Q", "R", "S", "T", "U", "V", "W", "X", "Y", "Z", "[", "\\", "]", "^", "_",
      GRAVE, "a", "b", "c", "d", "e", "f", "g", "h", "i", "j", "k", "l", "m", "n", "o",
      "p", "q", "r", "s", "t", "u", "v", "w", "x", "y", "z", "{", "|", "}", "~">>

ControlCodes == [c \in {"\t", "\n", "\f", "\r", ESC} |->
                    CASE c = "\t" -> 9 [] c = "\n" -> 10 [] c = "\f" -> 12
                      [] c = "\r" -> 13 [] OTHER -> 27]

\* the code point of a character of the model
CodeOf(c) ==
    IF c \in DOMAIN ControlCodes THEN ControlCodes[c]
    ELSE 31 + (CHOOSE i \in 1..Len(Ascii) : Ascii[i] = c)

HasCode(n) ==
    \/ n \in 32..126
    \/ \E c \in DOMAIN ControlCodes : ControlCodes[c] = n

CharOfCode(n) ==
    IF n \in 32..126 THEN Ascii[n - 31]
    ELSE CHOOSE c \in DOMAIN ControlCodes : ControlCodes[c] = n

HexDigits ==
    <<"0", "1", "2", "3", "4", "5", "6", "7", "8", "9", "a", "b", "c", "d", "e", "f">>

\* EscapeChar that leaves the double quote as it is
EscapeChar_QuoteUnescaped(c) ==
    CASE c = "\\" -> <<"\\", "\\">>
      [] c = "\n" -> <<"\\", "n">>
      [] c = "\r" -> <<"\\", "r">>
      [] c = "\t" -> <<"\\", "t">>
      [] c \in {"<", ">", "&", ESC} ->
            <<"\\", "u", "0", "0", HexDigits[(CodeOf(c) \div 16) + 1],
              HexDigits[(CodeOf(c) % 16) + 1]>>
      [] OTHER -> <<c>>

\* one character of a string, as appendString of encoding/json writes it
\* (escapeHTML on, as Marshal sets it)
EscapeChar(c) ==
    CASE c = "\"" -> <<"\\", "\"">>
      [] c = "\\" -> <<"\\", "\\">>
      [] c = "\n" -> <<"\\", "n">>
      [] c = "\r" -> <<"\\", "r">>
      [] c = "\t" -> <<"\\", "t">>
      [] c \in {"<", ">", "&", ESC} ->
            <<"\\", "u", "0", "0", HexDigits[(CodeOf(c) \div 16) + 1],
              HexDigits[(CodeOf(c) % 16) + 1]>>
      [] OTHER -> <<c>>

RECURSIVE EscapeFrom(_, _)
EscapeFrom(s, i) ==
    IF i > Len(s) THEN <<>> ELSE EscapeChar(s[i]) \o EscapeFrom(s, i + 1)

\* a Go string as a JSON string literal
EncodeString(s) == <<"\"">> \o EscapeFrom(s, 1) \o <<"\"">>

\* "name": in compact form
EncodeKey(name) == <<"\"">> \o name \o <<"\"", ":">>

KeyMeta == <<"m", "e", "t", "a">>
KeyID == <<"i", "d">>
KeyNode == <<"n", "o", "d", "e">>
KeyMS == <<"m", "s">>
KeyData == <<"d", "a", "t", "a">>
KeyOutput == <<"o", "u", "t", "p", "u", "t">>
KeyTokens == <<"t", "o", "k", "e", "n", "s">>
KeyReferences == <<"r", "e", "f", "e", "r", "e", "n", "c", "e", "s">>
KeyTitle == <<"t", "i", "t", "l", "e">>
KeySnippet == <<"s", "n", "i", "p", "p", "e", "t">>
KeyURL == <<"u", "r", "l">>

StrNull == <<"n", "u", "l", "l">>

\* a Reference struct, encoded field by field in declaration order
EncodeReference(ref) ==
    <<"{">> \o EncodeKey(KeyTitle) \o EncodeString(ref.Title)
    \o <<",">> \o EncodeKey(KeySnippet) \o EncodeString(ref.Snippet)
    \o <<",">> \o EncodeKey(KeyURL) \o EncodeString(ref.URL)
    \o <<"}">>

RECURSIVE EncodeElems(_, _)
EncodeElems(elems, i) ==
    IF i > Len(elems) THEN <<>>
    ELSE (IF i > 1 THEN <<",">> ELSE <<>>)
         \o EncodeReference(elems[i]) \o EncodeElems(elems, i + 1)

\* a []Reference: a nil slice encodes as null, any other as an array
EncodeSlice(slice) ==
    IF slice.isNil THEN StrNull
    ELSE <<"[">> \o EncodeElems(slice.elems, 1) \o <<"]">>

\* json.Marshal(resp): the compact encoding of a FastGPTResponse
MarshalResponse(r) ==
    <<"{">> \o EncodeKey(KeyMeta)
    \o <<"{">> \o EncodeKey(KeyID) \o EncodeString(r.Meta.ID)
    \o <<",">> \o EncodeKey(KeyNode) \o EncodeString(r.Meta.Node)
    \o <<",">> \o EncodeKey(KeyMS) \o IntToString(r.Meta.MS)
    \o <<"}", ",">> \o EncodeKey(KeyData)
    \o <<"{">> \o EncodeKey(KeyOutput) \o EncodeString(r.Data.Output)
    \o <<",">> \o EncodeKey(KeyTokens) \o IntToString(r.Data.Tokens)
    \o <<",">> \o EncodeKey(KeyReferences) \o EncodeSlice(r.Data.References)
    \o <<"}", "}">>

\* json.Marshal of a string
MarshalString(s) == EncodeString(s)

\* depth levels of the indent "  "
RECURSIVE Spaces(_)
Spaces(n) == IF n = 0 THEN <<>> ELSE <<" ", " ">> \o Spaces(n - 1)

\* appendNewline of json.Indent with prefix "" and indent "  "
IndentNewline(depth) == <<NL>> \o Spaces(depth)

\* "name": value as json.Indent writes a member: ':' is followed by a space
IndentMember(name, value) == <<"\"">> \o name \o <<"\"", ":", " ">> \o value

\* members from the i-th on, each on a line of its own at the given depth
RECURSIVE IndentLines(_, _, _)
IndentLines(items, i, depth) ==
    IF i > Len(items) THEN <<>>
    ELSE (IF i > 1 THEN <<",">> ELSE <<>>)
         \o IndentNewline(depth) \o items[i] \o IndentLines(items, i + 1, depth)

\* what json.Indent makes of an object or array whose members or elements
\* (already indented for depth + 1) are items: the opening delimiter, every
\* item on its own line one level deeper, the closing delimiter on a line at
\* depth; an empty object or array stays {} or []
IndentBlock(open, close, items, depth) ==
    IF items = <<>> THEN <<open, close>>
    ELSE <<open>> \o IndentLines(items, 1, depth + 1)
         \o IndentNewline(depth) \o <<close>>

\* a Reference at nesting depth
IndentReference(ref, depth) ==
    IndentBlock("{", "}",
        <<IndentMember(KeyTitle, EncodeString(ref.Title)),
          IndentMember(KeySnippet, EncodeString(ref.Snippet)),
          IndentMember(KeyURL, EncodeString(ref.URL))>>,
        depth)

\* a []Reference at nesting depth: null for a nil slice
IndentSlice(slice, depth) ==
    IF slice.isNil THEN StrNull
    ELSE IndentBlock("[", "]",
             [i \in 1..Len(slice.elems) |-> IndentReference(slice.elems[i], depth + 1)],
             depth)

\* json.Indent(dst, json.Marshal(resp), "", "  ")
IndentResponse(r) ==
    IndentBlock("{", "}",
        <<IndentMember(KeyMeta,
              IndentBlock("{", "}",
                  <<IndentMember(KeyID, EncodeString(r.Meta.ID)),
                    IndentMember(KeyNode, EncodeString(r.Meta.Node)),
                    IndentMember(KeyMS, IntToString(r.Meta.MS))>>,
                  1)),
          IndentMember(KeyData,
              IndentBlock("{", "}",
                  <<IndentMember(KeyOutput, EncodeString(r.Data.Output)),
                    IndentMember(KeyTokens, IntToString(r.Data.Tokens)),
                    IndentMember(KeyReferences, IndentSlice(r.Data.References, 2))>>,
                  1))>>,
        0)

\* Marshal and MarshalIndent return (bytes, error); the encoder fails only on
\* values it cannot represent (channels, functions, cyclic data, NaN), none of
\* which a string or a FastGPTResponse holds
MarshalResult(bytes) == [bytes |-> bytes, err |-> NoError]

\* json.MarshalIndent(resp, "", "  ")
MarshalIndentResponse(r) == MarshalResult(IndentResponse(r))

\* json.MarshalIndent(resp.Data.Output, "", "  ")
\* (Indent leaves a lone string literal as it is)
MarshalIndentString(s) == MarshalResult(MarshalString(s))

----------------------------------------------------------------------------
(* JSON renderer and the dispatcher *)

\* what a renderer returns: (string, error)
Result(out, e) == [out |-> out, err |-> e]

ErrMarshalOutput == Error("failed to marshal output to JSON")

ErrMarshalResponse == Error("failed to marshal response to JSON")

\* formatJSON_output without the quiet branch
formatJSON_output_IgnoresQuiet(r, cfg) ==
    LET m  == MarshalIndentResponse(r)
        m2 == IF m.err # NoError THEN MarshalResult(MarshalResponse(r)) ELSE m
    IN  IF m2.err # NoError
        THEN Result(<<>>, ErrMarshalResponse)
        ELSE Result(m2.bytes \o <<NL>>, NoError)

formatJSON_output(r, cfg) ==
    IF cfg.Quiet
    THEN LET m == MarshalIndentString(r.Data.Output)
         IN  IF m.err # NoError
             THEN Result(<<>>, ErrMarshalOutput)
             ELSE Result(m.bytes \o <<NL>>, NoError)
    ELSE LET m  == MarshalIndentResponse(r)
             \* fallback to non-indented if pretty print fails
             m2 == IF m.err # NoError THEN MarshalResult(MarshalResponse(r)) ELSE m
         IN  IF m2.err # NoError
             THEN Result(<<>>, ErrMarshalResponse)
             ELSE Result(m2.bytes \o <<NL>>, NoError)

\* formatOutput comparing the format without regard to case
formatOutput_IgnoresCase(r, cfg) ==
    CASE ToLower(cfg.Format) = formatJSON -> formatJSON_output(r, cfg)
      [] ToLower(cfg.Format) = formatMarkdown ->
           Result(formatMarkdown_output(r, cfg), NoError)
      [] OTHER -> Result(formatText_output(r, cfg), NoError)

\* formatOutput with an error for a format that is none of the three
formatOutput_RejectsUnknownFormat(r, cfg) ==
    CASE cfg.Format = formatJSON -> formatJSON_output(r, cfg)
      [] cfg.Format = formatMarkdown -> Result(formatMarkdown_output(r, cfg), NoError)
      [] cfg.Format = formatText -> Result(formatText_output(r, cfg), NoError)
      [] OTHER -> Result(<<>>, Error("unknown format"))

\* formatOutput with the markdown case missing
formatOutput_NoMarkdownCase(r, cfg) ==
    CASE cfg.Format = formatJSON -> formatJSON_output(r, cfg)
      [] OTHER -> Result(formatText_output(r, cfg), NoError)

formatOutput(r, cfg) ==
    CASE cfg.Format = formatJSON -> formatJSON_output(r, cfg)
      [] cfg.Format = formatMarkdown -> Result(formatMarkdown_output(r, cfg), NoError)
      [] OTHER -> Result(formatText_output(r, cfg), NoError)

----------------------------------------------------------------------------
(* encoding/json: the decoder *)

\* a decoded JSON value
JNull == [kind |-> "null"]

JString(s) == [kind |-> "string", str |-> s]

JNumber(n) == [kind |-> "number", num |-> n]

JArray(elems) == [kind |-> "array", elems |-> elems]

\* the members of an object in document order
JObject(keys, vals) == [kind |-> "object", keys |-> keys, vals |-> vals]

\* the result of a parsing step: the value read and the position after it
Parsed(val, pos) == [ok |-> TRUE, val |-> val, pos |-> pos]

ParseFail == [ok |-> FALSE, val |-> JNull, pos |-> 0]

\* the JSON whitespace
IsJSONSpace(c) == c \in {" ", "\t", "\n", "\r"}

RECURSIVE SkipSpace(_, _)
SkipSpace(s, i) ==
    IF i <= Len(s) /\ IsJSONSpace(s[i]) THEN SkipSpace(s, i + 1) ELSE i

HexValue(c) ==
    IF \E k \in 1..16 : HexDigits[k] = ToLowerChar(c)
    THEN (CHOOSE k \in 1..16 : HexDigits[k] = ToLowerChar(c)) - 1
    ELSE -1

\* the rest of a string literal from position i, after the opening quote;
\* acc is the text decoded so far
RECURSIVE ParseStringFrom(_, _, _)
ParseStringFrom(s, i, acc) ==
    IF i > Len(s) THEN ParseFail
    ELSE IF s[i] = "\"" THEN Parsed(JString(acc), i + 1)
    ELSE IF s[i] = "\\"
    THEN IF i + 1 > Len(s) THEN ParseFail
         ELSE CASE s[i + 1] \in {"\"", "\\", "/"} ->
                     ParseStringFrom(s, i + 2, Append(acc, s[i + 1]))
                [] s[i + 1] = "n" -> ParseStringFrom(s, i + 2, Append(acc, "\n"))
                [] s[i + 1] = "r" -> ParseStringFrom(s, i + 2, Append(acc, "\r"))
                [] s[i + 1] = "t" -> ParseStringFrom(s, i + 2, Append(acc, "\t"))
                [] s[i + 1] = "f" -> ParseStringFrom(s, i + 2, Append(acc, "\f"))
                [] s[i + 1] = "u" ->
                     IF i + 5 > Len(s) THEN ParseFail
                     ELSE LET h == [k \in 1..4 |-> HexValue(s[i + 1 + k])]
                              n == ((h[1] * 16 + h[2]) * 16 + h[3]) * 16 + h[4]
                          IN  IF (\E k \in 1..4 : h[k] < 0) \/ ~HasCode(n)
                              THEN ParseFail
                              ELSE ParseStringFrom(s, i + 6, Append(acc, CharOfCode(n)))
                [] OTHER -> ParseFail
    ELSE IF s[i] \in DOMAIN ControlCodes THEN ParseFail
    ELSE ParseStringFrom(s, i + 1, Append(acc, s[i]))

IsDigit(c) == \E k \in 1..10 : Digits[k] = c

DigitValue(c) == (CHOOSE k \in 1..10 : Digits[k] = c) - 1

\* the digits of a number from position i on; n is their value so far
RECURSIVE ParseDigits(_, _, _)
ParseDigits(s, i, n) ==
    IF i <= Len(s) /\ IsDigit(s[i])
    THEN ParseDigits(s, i + 1, n * 10 + DigitValue(s[i]))
    ELSE [val |-> n, pos |-> i]

\* an integer literal at position i
ParseNumber(s, i) ==
    LET neg   == s[i] = "-"
        first == IF neg THEN i + 1 ELSE i
    IN  IF first > Len(s) \/ ~IsDigit(s[first]) THEN ParseFail
        ELSE LET d == ParseDigits(s, first, 0)
             IN  IF s[first] = "0" /\ d.pos > first + 1 THEN ParseFail
                 ELSE IF d.pos <= Len(s) /\ s[d.pos] \in {".", "e", "E"} THEN ParseFail
                 ELSE Parsed(JNumber(IF neg THEN -d.val ELSE d.val), d.pos)

RECURSIVE ParseValue(_, _)
RECURSIVE ParseElements(_, _, _)
RECURSIVE ParseMembers(_, _, _, _)

\* the elements of an array from position i, after "[" or ","
ParseElements(s, i, acc) ==
    LET v == ParseValue(s, i)
    IN  IF ~v.ok THEN ParseFail
        ELSE LET j == SkipSpace(s, v.pos)
             IN  IF j > Len(s) THEN ParseFail
                 ELSE IF s[j] = "," THEN ParseElements(s, j + 1, Append(acc, v.val))
                 ELSE IF s[j] = "]" THEN Parsed(JArray(Append(acc, v.val)), j + 1)
                 ELSE ParseFail

\* the members of an object from position i, after "{" or ","
ParseMembers(s, i, keys, vals) ==
    LET j == SkipSpace(s, i)
    IN  IF j > Len(s) \/ s[j] # "\"" THEN ParseFail
        ELSE LET k == ParseStringFrom(s, j + 1, <<>>)
             IN  IF ~k.ok THEN ParseFail
                 ELSE LET c == SkipSpace(s, k.pos)
                      IN  IF c > Len(s) \/ s[c] # ":" THEN ParseFail
                          ELSE LET v == ParseValue(s, c + 1)
                               IN  IF ~v.ok THEN ParseFail
                                   ELSE LET e == SkipSpace(s, v.pos)
                                        IN  IF e > Len(s) THEN ParseFail
                                            ELSE IF s[e] = ","
                                            THEN ParseMembers(s, e + 1,
                                                     Append(keys, k.val.str),
                                                     Append(vals, v.val))
                                            ELSE IF s[e] = "}"
                                            THEN Parsed(JObject(Append(keys, k.val.str),
                                                                Append(vals, v.val)),
                                                        e + 1)
                                            ELSE ParseFail

\* the JSON value that starts at or after position i
ParseValue(s, i) ==
    LET j == SkipSpace(s, i)
    IN  IF j > Len(s) THEN ParseFail
        ELSE CASE s[j] = "\"" -> ParseStringFrom(s, j + 1, <<>>)
               [] s[j] = "-" \/ IsDigit(s[j]) -> ParseNumber(s, j)
               [] s[j] = "n" ->
                    IF j + 3 <= Len(s) /\ SubSeq(s, j, j + 3) = StrNull
                    THEN Parsed(JNull, j + 4) ELSE ParseFail
               [] s[j] = "[" ->
                    LET e == SkipSpace(s, j + 1)
                    IN  IF e <= Len(s) /\ s[e] = "]" THEN Parsed(JArray(<<>>), e + 1)
                        ELSE ParseElements(s, j + 1, <<>>)
               [] s[j] = "{" ->
                    LET e == SkipSpace(s, j + 1)
                    IN  IF e <= Len(s) /\ s[e] = "}"
                        THEN Parsed(JObject(<<>>, <<>>), e + 1)
                        ELSE ParseMembers(s, j + 1, <<>>, <<>>)
               [] OTHER -> ParseFail

\* the document s as a JSON value: one value, with only whitespace around it
\* (checkValid of encoding/json)
ParseJSON(s) ==
    LET whole(v) == IF v.ok /\ SkipSpace(s, v.pos) = Len(s) + 1 THEN v ELSE ParseFail
    IN  whole(ParseValue(s, 1))

----------------------------------------------------------------------------
(* encoding/json: Unmarshal into the structs of main.go *)

\* the value stored and whether an UnmarshalTypeError was recorded
Stored(val, bad) == [val |-> val, bad |-> bad]

\* JSON value v into a Go string holding cur: null leaves it as it is
UnmarshalString(v, cur) ==
    CASE v.kind = "null" -> Stored(cur, FALSE)
      [] v.kind = "string" -> Stored(v.str, FALSE)
      [] OTHER -> Stored(cur, TRUE)

\* JSON value v into a Go int holding cur
UnmarshalInt(v, cur) ==
    CASE v.kind = "null" -> Stored(cur, FALSE)
      [] v.kind = "number" -> Stored(v.num, FALSE)
      [] OTHER -> Stored(cur, TRUE)

\* a member name matches a field's json tag case-insensitively
KeyMatches(key, tag) == ToLower(key) = tag

\* the members of object v from the i-th on, into the Reference cur;
\* members that match no field are skipped
RECURSIVE UnmarshalReferenceMembers(_, _, _, _)
UnmarshalReferenceMembers(v, i, cur, bad) ==
    IF i > Len(v.keys) THEN Stored(cur, bad)
    ELSE LET key == v.keys[i]
             val == v.vals[i]
         IN  CASE KeyMatches(key, KeyTitle) ->
                    LET f == UnmarshalString(val, cur.Title)
                    IN  UnmarshalReferenceMembers(v, i + 1,
                            [cur EXCEPT !.Title = f.val], bad \/ f.bad)
               [] KeyMatches(key, KeySnippet) ->
                    LET f == UnmarshalString(val, cur.Snippet)
                    IN  UnmarshalReferenceMembers(v, i + 1,
                            [cur EXCEPT !.Snippet = f.val], bad \/ f.bad)
               [] KeyMatches(key, KeyURL) ->
                    LET f == UnmarshalString(val, cur.URL)
                    IN  UnmarshalReferenceMembers(v, i + 1,
                            [cur EXCEPT !.URL = f.val], bad \/ f.bad)
               [] OTHER -> UnmarshalReferenceMembers(v, i + 1, cur, bad)

UnmarshalReference(v, cur) ==
    CASE v.kind = "null" -> Stored(cur, FALSE)
      [] v.kind = "object" -> UnmarshalReferenceMembers(v, 1, cur, FALSE)
      [] OTHER -> Stored(cur, TRUE)

\* JSON value v into a []Reference holding cur: null sets the slice to nil,
\* an array gives a non-nil slice with one element per array element
UnmarshalSlice(v, cur) ==
    CASE v.kind = "null" -> Stored(NilSlice, FALSE)
      [] v.kind = "array" ->
           LET each == [i \in 1..Len(v.elems) |->
                           UnmarshalReference(v.elems[i], Reference(<<>>, <<>>, <<>>))]
           IN  Stored(SliceOf([i \in 1..Len(v.elems) |-> each[i].val]),
                      \E i \in 1..Len(v.elems) : each[i].bad)
      [] OTHER -> Stored(cur, TRUE)

RECURSIVE UnmarshalMetaMembers(_, _, _, _)
UnmarshalMetaMembers(v, i, cur, bad) ==
    IF i > Len(v.keys) THEN Stored(cur, bad)
    ELSE LET key == v.keys[i]
             val == v.vals[i]
         IN  CASE KeyMatches(key, KeyID) ->
                    LET f == UnmarshalString(val, cur.ID)
                    IN  UnmarshalMetaMembers(v, i + 1,
                            [cur EXCEPT !.ID = f.val], bad \/ f.bad)
               [] KeyMatches(key, KeyNode) ->
                    LET f == UnmarshalString(val, cur.Node)
                    IN  UnmarshalMetaMembers(v, i + 1,
                            [cur EXCEPT !.Node = f.val], bad \/ f.bad)
               [] KeyMatches(key, KeyMS) ->
                    LET f == UnmarshalInt(val, cur.MS)
                    IN  UnmarshalMetaMembers(v, i + 1,
                            [cur EXCEPT !.MS = f.val], bad \/ f.bad)
               [] OTHER -> UnmarshalMetaMembers(v, i + 1, cur, bad)

UnmarshalMeta(v, cur) ==
    CASE v.kind = "null" -> Stored(cur, FALSE)
      [] v.kind = "object" -> UnmarshalMetaMembers(v, 1, cur, FALSE)
      [] OTHER -> Stored(cur, TRUE)

RECURSIVE UnmarshalDataMembers(_, _, _, _)
UnmarshalDataMembers(v, i, cur, bad) ==
    IF i > Len(v.keys) THEN Stored(cur, bad)
    ELSE LET key == v.keys[i]
             val == v.vals[i]
         IN  CASE KeyMatches(key, KeyOutput) ->
                    LET f == UnmarshalString(val, cur.Output)
                    IN  UnmarshalDataMembers(v, i + 1,
                            [cur EXCEPT !.Output = f.val], bad \/ f.bad)
               [] KeyMatches(key, KeyTokens) ->
                    LET f == UnmarshalInt(val, cur.Tokens)
                    IN  UnmarshalDataMembers(v, i + 1,
                            [cur EXCEPT !.Tokens = f.val], bad \/ f.bad)
               [] KeyMatches(key, KeyReferences) ->
                    LET f == UnmarshalSlice(val, cur.References)
                    IN  UnmarshalDataMembers(v, i + 1,
                            [cur EXCEPT !.References = f.val], bad \/ f.bad)
               [] OTHER -> UnmarshalDataMembers(v, i + 1, cur, bad)

UnmarshalData(v, cur) ==
    CASE v.kind = "null" -> Stored(cur, FALSE)
      [] v.kind = "object" -> UnmarshalDataMembers(v, 1, cur, FALSE)
      [] OTHER -> Stored(cur, TRUE)

RECURSIVE UnmarshalResponseMembers(_, _, _, _)
UnmarshalResponseMembers(v, i, cur, bad) ==
    IF i > Len(v.keys) THEN Stored(cur, bad)
    ELSE LET key == v.keys[i]
             val == v.vals[i]
         IN  CASE KeyMatches(key, KeyMeta) ->
                    LET f == UnmarshalMeta(val, cur.Meta)
                    IN  UnmarshalResponseMembers(v, i + 1,
                            [cur EXCEPT !.Meta = f.val], bad \/ f.bad)
               [] KeyMatches(key, KeyData) ->
                    LET f == UnmarshalData(val, cur.Data)
                    IN  UnmarshalResponseMembers(v, i + 1,
                            [cur EXCEPT !.Data = f.val], bad \/ f.bad)
               [] OTHER -> UnmarshalResponseMembers(v, i + 1, cur, bad)

ErrUnmarshal == Error("json: cannot unmarshal")

\* json.Unmarshal(body, &apiResp) with apiResp the zero FastGPTResponse:
\* (the response, the error)
UnmarshalResponse(body) ==
    LET result(st) == [val |-> st.val, err |-> IF st.bad THEN ErrUnmarshal ELSE NoError]
        decode(doc) ==
            IF ~doc.ok THEN [val |-> ZeroResponse, err |-> ErrUnmarshal]
            ELSE result(CASE doc.val.kind = "null" -> Stored(ZeroResponse, FALSE)
                          [] doc.val.kind = "object" ->
                               UnmarshalResponseMembers(doc.val, 1, ZeroResponse, FALSE)
                          [] OTHER -> Stored(ZeroResponse, TRUE))
    IN  decode(ParseJSON(body))

\* json.Unmarshal(text, &parsed) with parsed a Go string, as the tests decode
\* the quiet JSON output
UnmarshalToString(text) ==
    LET result(st) == [val |-> st.val, err |-> IF st.bad THEN ErrUnmarshal ELSE NoError]
        decode(doc) ==
            IF ~doc.ok THEN [val |-> <<>>, err |-> ErrUnmarshal]
            ELSE result(UnmarshalString(doc.val, <<>>))
    IN  decode(ParseJSON(text))

----------------------------------------------------------------------------
(* Configuration: normalizeFormat, isValidFormat, getQuery, loadConfig *)

\* normalizeFormat without the lowercasing
normalizeFormat_KeepsCase(format) ==
    LET f == TrimSpace(format)
    IN  CASE f = <<"t", "x", "t">> -> formatText
          [] f = <<"m", "a", "r", "k", "d", "o", "w", "n">> -> formatMarkdown
          [] OTHER -> f

normalizeFormat(format) ==
    LET f == ToLower(TrimSpace(format))
    IN  CASE f = <<"t", "x", "t">> -> formatText
          [] f = <<"m", "a", "r", "k", "d", "o", "w", "n">> -> formatMarkdown
          [] OTHER -> f

\* isValidFormat comparing without regard to case
isValidFormat_IgnoresCase(format) ==
    ToLower(format) \in {formatText, formatMarkdown, formatJSON}

isValidFormat(format) ==
    format = formatText \/ format = formatMarkdown \/ format = formatJSON

ErrNoQuery == Error("no query provided")

ErrStdin == Error("failed to read from stdin")

\* getQuery reading standard input before it looks at the arguments
getQuery_StdinFirst(args, e) ==
    LET fromArgs  == TrimSpace(Join(args, <<" ">>))
        fromStdin == TrimSpace(e.stdin)
    IN  IF ~e.stdinIsTerminal /\ e.stdinFails
        THEN [query |-> <<>>, err |-> ErrStdin, readStdin |-> TRUE]
        ELSE IF ~e.stdinIsTerminal /\ fromStdin # <<>>
        THEN [query |-> fromStdin, err |-> NoError, readStdin |-> TRUE]
        ELSE IF Len(args) > 0 /\ fromArgs # <<>>
        THEN [query |-> fromArgs, err |-> NoError, readStdin |-> ~e.stdinIsTerminal]
        ELSE [query |-> <<>>, err |-> ErrNoQuery, readStdin |-> ~e.stdinIsTerminal]

\* getQuery(args): (query, error), and whether standard input was read;
\* e holds the state of standard input
getQuery(args, e) ==
    LET fromArgs  == TrimSpace(Join(args, <<" ">>))
        fromStdin == TrimSpace(e.stdin)
    IN  IF Len(args) > 0 /\ fromArgs # <<>>
        THEN [query |-> fromArgs, err |-> NoError, readStdin |-> FALSE]
        ELSE IF ~e.stdinIsTerminal /\ e.stdinFails
        THEN [query |-> <<>>, err |-> ErrStdin, readStdin |-> TRUE]
        ELSE IF ~e.stdinIsTerminal /\ fromStdin # <<>>
        THEN [query |-> fromStdin, err |-> NoError, readStdin |-> TRUE]
        ELSE [query |-> <<>>, err |-> ErrNoQuery, readStdin |-> ~e.stdinIsTerminal]

\* the nil *Config
NilConfig == Config(<<>>, <<>>, <<>>, 0, FALSE, FALSE, <<>>, FALSE, FALSE)

ErrNoAPIKey == Error("no API key provided")

ErrInvalidFormat(given) == [msg |-> "invalid value for --format", given |-> given]

ErrInvalidTimeout(given) == [msg |-> "invalid timeout value", given |-> given]

ErrInvalidColor(given) == [msg |-> "invalid value for --color", given |-> given]

\* loadConfig with the environment variable consulted before the flag
loadConfig_EnvFirst(f, e) ==
    LET apiKey == IF e.envAPIKey = <<>> THEN f.flagAPIKey ELSE e.envAPIKey
        q      == getQuery(e.args, e)
        format == normalizeFormat(f.flagFormat)
        color  == ToLower(TrimSpace(f.flagColor))
        fail(why, read) == [config |-> NilConfig, err |-> why, readStdin |-> read]
    IN  IF apiKey = <<>> THEN fail(ErrNoAPIKey, FALSE)
        ELSE IF q.err # NoError THEN fail(q.err, q.readStdin)
        ELSE IF ~isValidFormat(format)
        THEN fail(ErrInvalidFormat(f.flagFormat), q.readStdin)
        ELSE IF f.flagTimeout <= 0
        THEN fail(ErrInvalidTimeout(f.flagTimeout), q.readStdin)
        ELSE IF color # colorAuto /\ color # colorAlways /\ color # colorNever
        THEN fail(ErrInvalidColor(f.flagColor), q.readStdin)
        ELSE [config |-> Config(apiKey, q.query, format, f.flagTimeout,
                                f.flagHeading, f.flagQuiet, color,
                                f.flagVerbose \/ f.flagDebug, f.flagDebug),
              err |-> NoError, readStdin |-> q.readStdin]

\* loadConfig accepting a timeout of zero
loadConfig_AcceptsZeroTimeout(f, e) ==
    LET apiKey == IF f.flagAPIKey = <<>> THEN e.envAPIKey ELSE f.flagAPIKey
        q      == getQuery(e.args, e)
        format == normalizeFormat(f.flagFormat)
        color  == ToLower(TrimSpace(f.flagColor))
        fail(why, read) == [config |-> NilConfig, err |-> why, readStdin |-> read]
    IN  IF apiKey = <<>> THEN fail(ErrNoAPIKey, FALSE)
        ELSE IF q.err # NoError THEN fail(q.err, q.readStdin)
        ELSE IF ~isValidFormat(format)
        THEN fail(ErrInvalidFormat(f.flagFormat), q.readStdin)
        ELSE IF f.flagTimeout < 0
        THEN fail(ErrInvalidTimeout(f.flagTimeout), q.readStdin)
        ELSE IF color # colorAuto /\ color # colorAlways /\ color # colorNever
        THEN fail(ErrInvalidColor(f.flagColor), q.readStdin)
        ELSE [config |-> Config(apiKey, q.query, format, f.flagTimeout,
                                f.flagHeading, f.flagQuiet, color,
                                f.flagVerbose \/ f.flagDebug, f.flagDebug),
              err |-> NoError, readStdin |-> q.readStdin]

\* loadConfig(cmd, args): (config, error); f holds the flag variables and
\* e the environment (KAGI_API_KEY, the arguments, standard input);
\* readStdin records whether the call read standard input
loadConfig(f, e) ==
    LET apiKey == IF f.flagAPIKey = <<>> THEN e.envAPIKey ELSE f.flagAPIKey
        q      == getQuery(e.args, e)
        format == normalizeFormat(f.flagFormat)
        color  == ToLower(TrimSpace(f.flagColor))
        fail(why, read) == [config |-> NilConfig, err |-> why, readStdin |-> read]
    IN  IF apiKey = <<>> THEN fail(ErrNoAPIKey, FALSE)
        ELSE IF q.err # NoError THEN fail(q.err, q.readStdin)
        ELSE IF ~isValidFormat(format)
        THEN fail(ErrInvalidFormat(f.flagFormat), q.readStdin)
        ELSE IF f.flagTimeout <= 0
        THEN fail(ErrInvalidTimeout(f.flagTimeout), q.readStdin)
        ELSE IF color # colorAuto /\ color # colorAlways /\ color # colorNever
        THEN fail(ErrInvalidColor(f.flagColor), q.readStdin)
        ELSE [config |-> Config(apiKey, q.query, format, f.flagTimeout,
                                f.flagHeading, f.flagQuiet, color,
                                f.flagVerbose \/ f.flagDebug, f.flagDebug),
              err |-> NoError, readStdin |-> q.readStdin]

----------------------------------------------------------------------------
(* The API client: queryKagi *)

authHeaderPrefix ==
    <<"B", "o", "t", " ">>

contentTypeJSON ==
    <<"a", "p", "p", "l", "i", "c", "a", "t", "i", "o", "n", "/", "j", "s",
      "o", "n">>

webSearchEnabled == TRUE

cacheEnabled == TRUE

\* the members of object v from the i-th on, into one entry of FastGPTError.Error
RECURSIVE UnmarshalErrorEntryMembers(_, _, _, _)
UnmarshalErrorEntryMembers(v, i, cur, bad) ==
    IF i > Len(v.keys) THEN Stored(cur, bad)
    ELSE LET key == v.keys[i]
             val == v.vals[i]
         IN  CASE KeyMatches(key, <<"c", "o", "d", "e">>) ->
                    LET f == UnmarshalInt(val, cur.Code)
                    IN  UnmarshalErrorEntryMembers(v, i + 1,
                            [cur EXCEPT !.Code = f.val], bad \/ f.bad)
               [] KeyMatches(key, <<"m", "s", "g">>) ->
                    LET f == UnmarshalString(val, cur.Msg)
                    IN  UnmarshalErrorEntryMembers(v, i + 1,
                            [cur EXCEPT !.Msg = f.val], bad \/ f.bad)
               [] OTHER -> UnmarshalErrorEntryMembers(v, i + 1, cur, bad)

UnmarshalErrorEntry(v) ==
    LET zero == [Code |-> 0, Msg |-> <<>>]
    IN  CASE v.kind = "null" -> Stored(zero, FALSE)
          [] v.kind = "object" -> UnmarshalErrorEntryMembers(v, 1, zero, FALSE)
          [] OTHER -> Stored(zero, TRUE)

\* the "error" member of the document into FastGPTError.Error; the last
\* member that matches is the one that stays
RECURSIVE UnmarshalErrorMembers(_, _, _, _)
UnmarshalErrorMembers(v, i, cur, bad) ==
    IF i > Len(v.keys) THEN Stored(cur, bad)
    ELSE LET val == v.vals[i]
         IN  IF ~KeyMatches(v.keys[i], <<"e", "r", "r", "o", "r">>)
             THEN UnmarshalErrorMembers(v, i + 1, cur, bad)
             ELSE CASE val.kind = "null" ->
                         UnmarshalErrorMembers(v, i + 1, <<>>, bad)
                    [] val.kind = "array" ->
                         LET each == [k \in 1..Len(val.elems) |->
                                         UnmarshalErrorEntry(val.elems[k])]
                         IN  UnmarshalErrorMembers(v, i + 1,
                                 [k \in 1..Len(val.elems) |-> each[k].val],
                                 bad \/ \E k \in 1..Len(val.elems) : each[k].bad)
                    [] OTHER -> UnmarshalErrorMembers(v, i + 1, cur, TRUE)

\* json.Unmarshal(body, &apiError): (apiError.Error, the error)
UnmarshalAPIError(body) ==
    LET result(st) == [val |-> st.val, err |-> IF st.bad THEN ErrUnmarshal ELSE NoError]
        decode(doc) ==
            IF ~doc.ok THEN [val |-> <<>>, err |-> ErrUnmarshal]
            ELSE result(CASE doc.val.kind = "null" -> Stored(<<>>, FALSE)
                          [] doc.val.kind = "object" ->
                               UnmarshalErrorMembers(doc.val, 1, <<>>, FALSE)
                          [] OTHER -> Stored(<<>>, TRUE))
    IN  decode(ParseJSON(body))

ErrTimeout(timeout) == [msg |-> "request timeout exceeded", timeout |-> timeout]

ErrNetwork == Error("network request failed")

ErrReadBody == Error("failed to read response")

ErrInvalidAPIKey(code) == [msg |-> "API request failed: Invalid API key", code |-> code]

ErrRateLimit == Error("API rate limit exceeded, try again later")

ErrAPI(code, text) == [msg |-> "API request failed", code |-> code, text |-> text]

ErrHTTP(status) == [msg |-> "API returned HTTP", status |-> status]

ErrParse == Error("failed to parse API response")

ErrEmpty == Error("API returned empty response")

\* the request queryKagi sends
Request(apiKey, query) ==
    [ContentType |-> contentTypeJSON,
     Authorization |-> authHeaderPrefix \o apiKey,
     Body |-> [Query |-> query, WebSearch |-> webSearchEnabled, Cache |-> cacheEnabled]]

\* queryKagi without the check for an empty answer
queryKagi_AcceptsEmpty(apiKey, query, timeout, rep) ==
    LET fail(why) == [resp |-> ZeroResponse, isNil |-> TRUE, err |-> why]
    IN  IF rep.netErr = "timeout" THEN fail(ErrTimeout(timeout))
        ELSE IF rep.netErr # "none" THEN fail(ErrNetwork)
        ELSE IF rep.readFails THEN fail(ErrReadBody)
        ELSE IF rep.status < 200 \/ rep.status >= 300
        THEN LET refused(apiError) ==
                     IF apiError.err = NoError /\ Len(apiError.val) > 0
                     THEN CASE rep.status \in {401, 403} ->
                                 fail(ErrInvalidAPIKey(apiError.val[1].Code))
                            [] rep.status = 429 -> fail(ErrRateLimit)
                            [] OTHER ->
                                 fail(ErrAPI(apiError.val[1].Code, apiError.val[1].Msg))
                     ELSE fail(ErrHTTP(rep.status))
             IN  refused(UnmarshalAPIError(rep.body))
        ELSE LET answered(apiResp) ==
                     IF apiResp.err # NoError THEN fail(ErrParse)
                     ELSE [resp |-> apiResp.val, isNil |-> FALSE, err |-> NoError]
             IN  answered(UnmarshalResponse(rep.body))

\* queryKagi with status 403 handled as any other status
queryKagi_ForbiddenAsOther(apiKey, query, timeout, rep) ==
    LET fail(why) == [resp |-> ZeroResponse, isNil |-> TRUE, err |-> why]
    IN  IF rep.netErr = "timeout" THEN fail(ErrTimeout(timeout))
        ELSE IF rep.netErr # "none" THEN fail(ErrNetwork)
        ELSE IF rep.readFails THEN fail(ErrReadBody)
        ELSE IF rep.status < 200 \/ rep.status >= 300
        THEN LET refused(apiError) ==
                     IF apiError.err = NoError /\ Len(apiError.val) > 0
                     THEN CASE rep.status = 401 ->
                                 fail(ErrInvalidAPIKey(apiError.val[1].Code))
                            [] rep.status = 429 -> fail(ErrRateLimit)
                            [] OTHER ->
                                 fail(ErrAPI(apiError.val[1].Code, apiError.val[1].Msg))
                     ELSE fail(ErrHTTP(rep.status))
             IN  refused(UnmarshalAPIError(rep.body))
        ELSE LET answered(apiResp) ==
                     IF apiResp.err # NoError THEN fail(ErrParse)
                     ELSE IF apiResp.val.Data.Output = <<>> THEN fail(ErrEmpty)
                     ELSE [resp |-> apiResp.val, isNil |-> FALSE, err |-> NoError]
             IN  answered(UnmarshalResponse(rep.body))

\* queryKagi(apiKey, query, timeout): (response, error); rep is what the
\* request meets.  A nil response is isNil, with the zero response in resp.
queryKagi(apiKey, query, timeout, rep) ==
    LET fail(why) == [resp |-> ZeroResponse, isNil |-> TRUE, err |-> why]
    IN  IF rep.netErr = "timeout" THEN fail(ErrTimeout(timeout))
        ELSE IF rep.netErr # "none" THEN fail(ErrNetwork)
        ELSE IF rep.readFails THEN fail(ErrReadBody)
        ELSE IF rep.status < 200 \/ rep.status >= 300
        THEN LET refused(apiError) ==
                     IF apiError.err = NoError /\ Len(apiError.val) > 0
                     THEN CASE rep.status \in {401, 403} ->
                                 fail(ErrInvalidAPIKey(apiError.val[1].Code))
                            [] rep.status = 429 -> fail(ErrRateLimit)
                            [] OTHER ->
                                 fail(ErrAPI(apiError.val[1].Code, apiError.val[1].Msg))
                     ELSE fail(ErrHTTP(rep.status))
             IN  refused(UnmarshalAPIError(rep.body))
        ELSE LET answered(apiResp) ==
                     IF apiResp.err # NoError THEN fail(ErrParse)
                     ELSE IF apiResp.val.Data.Output = <<>> THEN fail(ErrEmpty)
                     ELSE [resp |-> apiResp.val, isNil |-> FALSE, err |-> NoError]
             IN  answered(UnmarshalResponse(rep.body))

----------------------------------------------------------------------------
(* The command: runCobra *)

version ==
    <<"d", "e", "v">>

StrVersionPrefix ==
    <<"k", "a", "g", "i", " ", "v">>

StrRepository ==
    <<"R", "e", "p", "o", "s", "i", "t", "o", "r", "y", ":", " ", "h", "t",
      "t", "p", "s", ":", "/", "/", "g", "i", "t", "h", "u", "b", ".", "c",
      "o", "m", "/", "g", "r", "a", "n", "t", "c", "a", "r", "t", "h", "e",
      "w", "/", "k", "a", "g", "i", "\n">>

StrReportIssues ==
    <<"R", "e", "p", "o", "r", "t", " ", "i", "s", "s", "u", "e", "s", ":",
      " ", "h", "t", "t", "p", "s", ":", "/", "/", "g", "i", "t", "h", "u",
      "b", ".", "c", "o", "m", "/", "g", "r", "a", "n", "t", "c", "a", "r",
      "t", "h", "e", "w", "/", "k", "a", "g", "i", "/", "i", "s", "s", "u",
      "e", "s", "/", "n", "e", "w", "\n">>

StrDebugAPIKey ==
    <<"D", "e", "b", "u", "g", ":", " ", "A", "P", "I", " ", "K", "e", "y",
      ":", " ", "*", "*", "*", "\n">>

StrDebugQuery ==
    <<"D", "e", "b", "u", "g", ":", " ", "Q", "u", "e", "r", "y", ":", " ">>

StrDebugFormat ==
    <<"D", "e", "b", "u", "g", ":", " ", "F", "o", "r", "m", "a", "t", ":",
      " ">>

StrDebugTimeout ==
    <<"D", "e", "b", "u", "g", ":", " ", "T", "i", "m", "e", "o", "u", "t",
      ":", " ">>

StrQuerying ==
    <<"Q", "u", "e", "r", "y", "i", "n", "g", " ", "K", "a", "g", "i", " ",
      "F", "a", "s", "t", "G", "P", "T", " ", "A", "P", "I", ".", ".", ".",
      "\n">>

StrResponseReceived ==
    <<"R", "e", "s", "p", "o", "n", "s", "e", " ", "r", "e", "c", "e", "i",
      "v", "e", "d", " ", "(">>

\* the version output without the --quiet branch
VersionOutput_IgnoresQuiet(quiet) ==
    <<StrVersionPrefix \o version \o <<NL>>, StrRepository, StrReportIssues>>

\* what runCobra prints for --version
VersionOutput(quiet) ==
    IF quiet THEN <<version \o <<NL>>>>
    ELSE <<StrVersionPrefix \o version \o <<NL>>, StrRepository, StrReportIssues>>

\* the debug lines with the key itself in place of the mask
DebugOutput_ShowsKey(cfg) ==
    (IF cfg.Debug
     THEN <<<<"D", "e", "b", "u", "g", ":", " ", "A", "P", "I", " ", "K", "e", "y",
              ":", " ">> \o cfg.APIKey \o <<NL>>,
            StrDebugQuery \o cfg.Query \o <<NL>>,
            StrDebugFormat \o cfg.Format \o <<NL>>,
            StrDebugTimeout \o IntToString(cfg.Timeout) \o <<NL>>>>
     ELSE <<>>)
    \o (IF cfg.Verbose \/ cfg.Debug THEN <<StrQuerying>> ELSE <<>>)

\* the 'Querying' line written before the debug lines
DebugOutput_QueryingFirst(cfg) ==
    (IF cfg.Verbose \/ cfg.Debug THEN <<StrQuerying>> ELSE <<>>)
    \o (IF cfg.Debug
        THEN <<StrDebugAPIKey,
               StrDebugQuery \o cfg.Query \o <<NL>>,
               StrDebugFormat \o cfg.Format \o <<NL>>,
               StrDebugTimeout \o IntToString(cfg.Timeout) \o <<NL>>>>
        ELSE <<>>)

\* what runCobra writes to standard error before the API call
DebugOutput(cfg) ==
    (IF cfg.Debug
     THEN <<StrDebugAPIKey,
            StrDebugQuery \o cfg.Query \o <<NL>>,
            StrDebugFormat \o cfg.Format \o <<NL>>,
            StrDebugTimeout \o IntToString(cfg.Timeout) \o <<NL>>>>
     ELSE <<>>)
    \o (IF cfg.Verbose \/ cfg.Debug THEN <<StrQuerying>> ELSE <<>>)

\* runCobra up to the API call: the --version branch, loadConfig, the debug
\* and verbose lines
RunCobraLoad ==
    /\ pc = "start"
    /\ IF flags.flagVersion
       THEN /\ stdout' = stdout \o VersionOutput(flags.flagQuiet)
            /\ err' = NoError
            /\ pc' = "returned"
            /\ UNCHANGED <<config, stderr, env>>
       ELSE LET returns(loaded) ==
                    /\ config' = loaded.config
                    /\ err' = loaded.err
                    /\ IF loaded.err # NoError
                       THEN pc' = "returned" /\ UNCHANGED stderr
                       ELSE /\ pc' = "query"
                            /\ stderr' = stderr \o DebugOutput(loaded.config)
                    /\ env' = [env EXCEPT !.stdinRead = loaded.readStdin]
                    /\ UNCHANGED stdout
            IN  returns(loadConfig(flags, env))
    /\ UNCHANGED <<flags, reply, resp, stdoutIsTerminal, output>>
    /\ UNCHANGED procVars

\* runCobra going on to the renderer after a failed API call
RunCobraQuery_ContinuesOnError ==
    /\ pc = "query"
    /\ LET returns(got) ==
               /\ err' = got.err
               /\ pc' = "render"
               /\ resp' = got.resp
               /\ stderr' =
                    IF config.Verbose \/ config.Debug
                    THEN Append(stderr,
                             StrResponseReceived \o IntToString(got.resp.Meta.MS)
                             \o <<"m", "s", ")", NL>>)
                    ELSE stderr
       IN  returns(queryKagi(config.APIKey, config.Query, config.Timeout, reply))
    /\ UNCHANGED <<flags, env, reply, stdout, config, stdoutIsTerminal, output>>
    /\ UNCHANGED procVars

\* runCobra: the API call and the verbose line after it
RunCobraQuery ==
    /\ pc = "query"
    /\ LET returns(got) ==
               /\ err' = got.err
               /\ IF got.err # NoError
                  THEN pc' = "returned" /\ UNCHANGED <<resp, stderr>>
                  ELSE /\ pc' = "render"
                       /\ resp' = got.resp
                       /\ stderr' =
                            IF config.Verbose \/ config.Debug
                            THEN Append(stderr,
                                     StrResponseReceived \o IntToString(got.resp.Meta.MS)
                                     \o <<"m", "s", ")", NL>>)
                            ELSE stderr
       IN  returns(queryKagi(config.APIKey, config.Query, config.Timeout, reply))
    /\ UNCHANGED <<flags, env, reply, stdout, config, stdoutIsTerminal, output>>
    /\ UNCHANGED procVars

\* runCobra: formatOutput and the write to standard output
RunCobraRender ==
    /\ pc = "render"
    /\ LET returns(r) ==
               /\ err' = r.err
               /\ output' = r.out
               /\ stdout' = IF r.err # NoError THEN stdout ELSE Append(stdout, r.out)
       IN  returns(formatOutput(resp, config))
    /\ pc' = "returned"
    /\ UNCHANGED <<flags, env, reply, stderr, resp, config, stdoutIsTerminal>>
    /\ UNCHANGED procVars

\* formatOutput(resp, config) called on its own, as the tests call it
FormatOutput ==
    /\ pc = "call"
    /\ LET returns(r) ==
               /\ err' = r.err
               /\ output' = r.out
       IN  returns(formatOutput(resp, config))
    /\ pc' = "rendered"
    /\ UNCHANGED <<flags, env, reply, stdout, stderr, resp, config, stdoutIsTerminal>>
    /\ UNCHANGED procVars

----------------------------------------------------------------------------
(* main: the signal handler and the exit code *)

\* main after signal.Notify and the go statement: nothing buffered, the
\* handler blocked on the channel
MainStarted ==
    /\ sigChan = <<>>
    /\ handler = "waiting"
    /\ delivered = {}
    /\ exited = FALSE
    /\ exitCode = exitSuccess

\* the process is sent one of the signals main asked to be notified of: the
\* runtime puts it in sigChan unless the buffer of one is full, and never
\* blocks
Signal ==
    /\ ~exited
    /\ \E s \in {"SIGINT", "SIGTERM"} \ delivered :
          /\ delivered' = delivered \cup {s}
          /\ sigChan' = IF Len(sigChan) < 1 THEN Append(sigChan, s) ELSE sigChan
    /\ UNCHANGED <<flags, env, reply, stdout, stderr, resp, config, stdoutIsTerminal,
                   pc, output, err, handler, exited, exitCode>>

\* the handler goroutine: <-sigChan
HandlerReceive ==
    /\ ~exited
    /\ handler = "waiting"
    /\ sigChan # <<>>
    /\ sigChan' = Tail(sigChan)
    /\ handler' = "received"
    /\ UNCHANGED <<flags, env, reply, stdout, stderr, resp, config, stdoutIsTerminal,
                   pc, output, err, delivered, exited, exitCode>>

\* the handler goroutine: os.Exit(exitInterrupt)
HandlerExit ==
    /\ ~exited
    /\ handler = "received"
    /\ exited' = TRUE
    /\ exitCode' = exitInterrupt
    /\ UNCHANGED <<flags, env, reply, stdout, stderr, resp, config, stdoutIsTerminal,
                   pc, output, err, sigChan, handler, delivered>>

\* MainReturn ending with exitSuccess whatever Execute returned
MainReturn_AlwaysSuccess ==
    /\ ~exited
    /\ pc = "returned"
    /\ exited' = TRUE
    /\ exitCode' = exitSuccess
    /\ UNCHANGED <<flags, env, reply, stdout, stderr, resp, config, stdoutIsTerminal,
                   pc, output, err, sigChan, handler, delivered>>

\* main after Execute: os.Exit(exitError) on an error, else main returns and
\* the process ends with exitSuccess
MainReturn ==
    /\ ~exited
    /\ pc = "returned"
    /\ exited' = TRUE
    /\ exitCode' = IF err # NoError THEN exitError ELSE exitSuccess
    /\ UNCHANGED <<flags, env, reply, stdout, stderr, resp, config, stdoutIsTerminal,
                   pc, output, err, sigChan, handler, delivered>>

----------------------------------------------------------------------------
(* Inputs *)

\* the characters an answer text is made of: a letter, a quote (escaped by
\* JSON with a backslash), an angle bracket (escaped as \u003c), a newline
OutputAlphabet == {"a", "\"", "<", "\n"}

Outputs == StringsUpTo(OutputAlphabet, MaxLen)

\* a reference without a snippet, and one with a snippet and with brackets
\* in its title
References ==
    {Reference(<<"T">>, <<>>, <<"u">>),
     Reference(<<"[", "b", "]">>, <<"s", "&">>, <<"v">>)}

\* the values of Data.References: the nil slice, and the slices of up to
\* MaxRefs references
Slices == {NilSlice} \cup {SliceOf(elems) : elems \in StringsUpTo(References, MaxRefs)}

Responses ==
    {FastGPTResponse(<<"i">>, <<"n">>, 120, out, tokens, refs) :
        out \in Outputs, tokens \in {0, 57}, refs \in Slices}

\* Config.Format as formatOutput may be handed it: the three canonical
\* values, and values loadConfig would have rejected
Formats ==
    {formatText, formatMarkdown, formatJSON,
     <<"m", "a", "r", "k", "d", "o", "w", "n">>, <<"J", "S", "O", "N">>}

Queries == {<<>>, <<"q">>}

\* Config.Color: the three modes, and a value loadConfig would have rejected
Colors == {colorAuto, colorAlways, colorNever, <<"o", "n">>}

Configs ==
    {Config(<<"k">>, query, format, defaultTimeout, heading, quiet, color, FALSE, FALSE) :
        query \in Queries, format \in Formats, heading \in BOOLEAN,
        quiet \in BOOLEAN, color \in Colors}

\* the flag variables as init() registers them
DefaultFlags ==
    [flagAPIKey |-> <<>>, flagFormat |-> formatText, flagTimeout |-> defaultTimeout,
     flagHeading |-> FALSE, flagQuiet |-> FALSE, flagColor |-> colorAuto,
     flagVerbose |-> FALSE, flagDebug |-> FALSE, flagVersion |-> FALSE]

\* values of --format: the five accepted names in several cases and with
\* surrounding whitespace, and values that are none of them
FlagFormats ==
    {<<"t", "e", "x", "t">>, <<"T", "e", "x", "t">>, <<"t", "x", "t">>,
     <<" ", "T", "X", "T", "\n">>,
     <<"m", "d">>, <<"\t", "M", "D">>, <<"m", "a", "r", "k", "d", "o", "w", "n">>,
     <<"M", "a", "r", "k", "D", "o", "w", "n", " ">>,
     <<"j", "s", "o", "n">>, <<" ", "J", "S", "O", "N", " ">>,
     <<>>, <<"x", "m", "l">>, <<"m", "d", "x">>, <<"t", "e", " ", "x", "t">>,
     <<"m", "a", "r", "k">>, <<" ", "X", "m", "l">>}

\* the command lines: each varies a few flags of the default
CLIFlags ==
    {[DefaultFlags EXCEPT !.flagFormat = f, !.flagQuiet = q, !.flagHeading = h] :
        f \in FlagFormats, q \in BOOLEAN, h \in BOOLEAN}
    \cup {[DefaultFlags EXCEPT !.flagVersion = TRUE, !.flagQuiet = q] : q \in BOOLEAN}
    \cup {[DefaultFlags EXCEPT !.flagVersion = TRUE, !.flagFormat = <<"x", "m", "l">>,
                                !.flagTimeout = 0, !.flagColor = <<"o", "n">>]}
    \cup {[DefaultFlags EXCEPT !.flagVerbose = v, !.flagDebug = d] :
             v \in BOOLEAN, d \in BOOLEAN}
    \cup {[DefaultFlags EXCEPT !.flagTimeout = t] : t \in {-1, 0, 1}}
    \cup {[DefaultFlags EXCEPT !.flagColor = c] :
             c \in {colorNever, <<" ", "A", "l", "w", "a", "y", "s">>, <<"o", "n">>}}
    \cup {[DefaultFlags EXCEPT !.flagAPIKey = <<"k">>]}

\* the environment: the key set or not; the query in the arguments, on
\* standard input, in both or nowhere; NO_COLOR set or not (nothing in
\* main.go reads it); stdinRead tells whether standard input has been read
CLIEnvs ==
    {[envAPIKey |-> <<"e">>, args |-> <<<<"q">>>>, stdinIsTerminal |-> TRUE,
      stdin |-> <<>>, stdinFails |-> FALSE, envNoColor |-> noColor,
           stdinRead |-> FALSE] :
        noColor \in BOOLEAN}
    \cup {[envAPIKey |-> <<>>, args |-> <<<<"q">>>>, stdinIsTerminal |-> TRUE,
           stdin |-> <<>>, stdinFails |-> FALSE, envNoColor |-> FALSE,
           stdinRead |-> FALSE]}
    \cup {[envAPIKey |-> <<>>, args |-> <<>>, stdinIsTerminal |-> FALSE,
           stdin |-> <<" ", "s", "\n">>, stdinFails |-> fails, envNoColor |-> FALSE,
           stdinRead |-> FALSE] :
             fails \in BOOLEAN}
    \cup {[envAPIKey |-> <<"e">>, args |-> args, stdinIsTerminal |-> tty,
           stdin |-> data, stdinFails |-> FALSE, envNoColor |-> FALSE,
           stdinRead |-> FALSE] :
             args \in {<<>>, <<<<" ">>>>}, tty \in BOOLEAN,
             data \in {<<>>, <<" ", "s", "\n">>}}
    \cup {[envAPIKey |-> <<"e">>, args |-> args, stdinIsTerminal |-> FALSE,
           stdin |-> <<" ", "s", "\n">>, stdinFails |-> fails, envNoColor |-> FALSE,
           stdinRead |-> FALSE] :
             args \in {<<<<"q">>>>, <<<<" ", "a">>, <<"b", " ">>>>},
             fails \in BOOLEAN}
    \cup {[envAPIKey |-> <<"e">>, args |-> args, stdinIsTerminal |-> FALSE,
           stdin |-> <<>>, stdinFails |-> TRUE, envNoColor |-> FALSE,
           stdinRead |-> FALSE] :
             args \in {<<>>, <<<<" ">>>>}}

\* a reply with two references
BodyFull ==
    <<"{", "\"", "m", "e", "t", "a", "\"", ":", "{", "\"", "i", "d", "\"", ":",
      "\"", "i", "\"", ",", "\"", "n", "o", "d", "e", "\"", ":", "\"", "n",
      "\"", ",", "\"", "m", "s", "\"", ":", "1", "2", "0", "}", ",", "\"", "d",
      "a", "t", "a", "\"", ":", "{", "\"", "o", "u", "t", "p", "u", "t", "\"",
      ":", "\"", "a", "\\", "u", "0", "0", "3", "c", "\"", ",", "\"", "t", "o",
      "k", "e", "n", "s", "\"", ":", "5", "7", ",", "\"", "r", "e", "f", "e",
      "r", "e", "n", "c", "e", "s", "\"", ":", "[", "{", "\"", "t", "i", "t",
      "l", "e", "\"", ":", "\"", "T", "\"", ",", "\"", "s", "n", "i", "p", "p",
      "e", "t", "\"", ":", "\"", "\"", ",", "\"", "u", "r", "l", "\"", ":",
      "\"", "u", "\"", "}", ",", "{", "\"", "t", "i", "t", "l", "e", "\"", ":",
      "\"", "[", "b", "]", "\"", ",", "\"", "s", "n", "i", "p", "p", "e", "t",
      "\"", ":", "\"", "s", "\"", ",", "\"", "u", "r", "l", "\"", ":", "\"",
      "v", "\"", "}", "]", "}", "}">>

\* a reply without the references key
BodyNoReferences ==
    <<"{", "\"", "m", "e", "t", "a", "\"", ":", "{", "\"", "i", "d", "\"", ":",
      "\"", "i", "\"", ",", "\"", "n", "o", "d", "e", "\"", ":", "\"", "n",
      "\"", ",", "\"", "m", "s", "\"", ":", "5", "}", ",", "\"", "d", "a", "t",
      "a", "\"", ":", "{", "\"", "o", "u", "t", "p", "u", "t", "\"", ":", "\"",
      "a", "\"", ",", "\"", "t", "o", "k", "e", "n", "s", "\"", ":", "3", "}",
      "}">>

\* a reply whose references are null
BodyNullReferences ==
    <<"{", "\"", "m", "e", "t", "a", "\"", ":", "{", "\"", "i", "d", "\"", ":",
      "\"", "i", "\"", ",", "\"", "n", "o", "d", "e", "\"", ":", "\"", "n",
      "\"", ",", "\"", "m", "s", "\"", ":", "5", "}", ",", "\"", "d", "a", "t",
      "a", "\"", ":", "{", "\"", "o", "u", "t", "p", "u", "t", "\"", ":", "\"",
      "a", "\"", ",", "\"", "t", "o", "k", "e", "n", "s", "\"", ":", "3", ",",
      "\"", "r", "e", "f", "e", "r", "e", "n", "c", "e", "s", "\"", ":", "n",
      "u", "l", "l", "}", "}">>

\* a reply whose references are the empty array
BodyEmptyReferences ==
    <<"{", "\"", "m", "e", "t", "a", "\"", ":", "{", "\"", "i", "d", "\"", ":",
      "\"", "i", "\"", ",", "\"", "n", "o", "d", "e", "\"", ":", "\"", "n",
      "\"", ",", "\"", "m", "s", "\"", ":", "5", "}", ",", "\"", "d", "a", "t",
      "a", "\"", ":", "{", "\"", "o", "u", "t", "p", "u", "t", "\"", ":", "\"",
      "a", "\"", ",", "\"", "t", "o", "k", "e", "n", "s", "\"", ":", "3", ",",
      "\"", "r", "e", "f", "e", "r", "e", "n", "c", "e", "s", "\"", ":", "[",
      "]", "}", "}">>

\* a reply with an empty answer
BodyEmptyOutput ==
    <<"{", "\"", "m", "e", "t", "a", "\"", ":", "{", "\"", "i", "d", "\"", ":",
      "\"", "\"", ",", "\"", "n", "o", "d", "e", "\"", ":", "\"", "\"", ",",
      "\"", "m", "s", "\"", ":", "0", "}", ",", "\"", "d", "a", "t", "a", "\"",
      ":", "{", "\"", "o", "u", "t", "p", "u", "t", "\"", ":", "\"", "\"", ",",
      "\"", "t", "o", "k", "e", "n", "s", "\"", ":", "0", ",", "\"", "r", "e",
      "f", "e", "r", "e", "n", "c", "e", "s", "\"", ":", "n", "u", "l", "l",
      "}", "}">>

\* a reply that is not JSON
BodyInvalid ==
    <<"i", "n", "v", "a", "l", "i", "d", " ", "j", "s", "o", "n">>

\* an API error reply
BodyError ==
    <<"{", "\"", "e", "r", "r", "o", "r", "\"", ":", "[", "{", "\"", "c", "o",
      "d", "e", "\"", ":", "4", "0", "1", ",", "\"", "m", "s", "g", "\"", ":",
      "\"", "b", "a", "d", "\"", "}", "]", "}">>

\* an API error reply without entries
BodyNoError ==
    <<"{", "\"", "e", "r", "r", "o", "r", "\"", ":", "[", "]", "}">>

Reply(netErr, readFails, status, body) ==
    [netErr |-> netErr, readFails |-> readFails, status |-> status, body |-> body]

\* what the API call may meet
Replies ==
    {Reply("none", FALSE, 200, body) :
        body \in {BodyFull, BodyNoReferences, BodyNullReferences,
                  BodyEmptyReferences, BodyEmptyOutput, BodyInvalid}}
    \cup {Reply("none", FALSE, status, BodyError) : status \in {401, 403, 429, 500}}
    \cup {Reply("none", FALSE, 500, body) : body \in {BodyInvalid, BodyNoError}}
    \cup {Reply("none", FALSE, 204, <<>>), Reply("none", FALSE, 401, BodyNoError),
          Reply("none", FALSE, 404, BodyInvalid),
          Reply("none", FALSE, 300, BodyError), Reply("none", FALSE, 199, BodyInvalid)}
    \cup {Reply("none", FALSE, status,
                <<"{", "\"", "e", "r", "r", "o", "r", "\"", ":", "[", "{", "\"", "c",
                  "o", "d", "e", "\"", ":", "7", ",", "\"", "m", "s", "g", "\"", ":",
                  "\"", "x", "\"", "}", ",", "{", "\"", "c", "o", "d", "e", "\"", ":",
                  "8", ",", "\"", "m", "s", "g", "\"", ":", "\"", "y", "\"", "}", "]",
                  "}">>) :
             status \in {403, 500}}
    \cup {Reply("timeout", FALSE, 0, <<>>), Reply("network", FALSE, 0, <<>>),
          Reply("none", TRUE, 200, <<>>)}

----------------------------------------------------------------------------
(* Specifications *)

\* formatOutput on every response and configuration of the bounds
Init ==
    /\ flags = DefaultFlags
    /\ env = [envAPIKey |-> <<>>, args |-> <<>>, stdinIsTerminal |-> TRUE,
              stdin |-> <<>>, stdinFails |-> FALSE, envNoColor |-> FALSE,
              stdinRead |-> FALSE]
    /\ reply = Reply("none", FALSE, 200, <<>>)
    /\ stdout = <<>>
    /\ stderr = <<>>
    /\ resp \in Responses
    /\ config \in Configs
    /\ stdoutIsTerminal \in BOOLEAN
    /\ pc = "call"
    /\ output = <<>>
    /\ err = NoError
    /\ MainStarted

Next == FormatOutput

Spec == Init /\ [][Next]_vars

\* one run of the command: runCobra from the flags to the output
InitCLI ==
    /\ flags \in CLIFlags
    /\ env \in CLIEnvs
    /\ reply \in Replies
    /\ stdout = <<>>
    /\ stderr = <<>>
    /\ resp = ZeroResponse
    /\ config = NilConfig
    /\ stdoutIsTerminal \in BOOLEAN
    /\ pc = "start"
    /\ output = <<>>
    /\ err = NoError
    /\ MainStarted

NextCLI ==
    \/ RunCobraLoad
    \/ RunCobraQuery
    \/ RunCobraRender

SpecCLI == InitCLI /\ [][NextCLI]_vars

\* main: the command and the signal handler side by side, on a few command
\* lines, environments and replies
InitMain ==
    /\ flags \in {DefaultFlags,
                  [DefaultFlags EXCEPT !.flagVersion = TRUE],
                  [DefaultFlags EXCEPT !.flagFormat = <<"x", "m", "l">>],
                  [DefaultFlags EXCEPT !.flagFormat = formatJSON, !.flagVerbose = TRUE]}
    /\ env \in {e \in CLIEnvs : e.args = <<<<"q">>>> /\ e.stdinIsTerminal /\ ~e.envNoColor}
    /\ reply \in {Reply("none", FALSE, 200, BodyFull),
                  Reply("none", FALSE, 200, BodyEmptyOutput),
                  Reply("none", FALSE, 429, BodyError),
                  Reply("timeout", FALSE, 0, <<>>)}
    /\ stdout = <<>>
    /\ stderr = <<>>
    /\ resp = ZeroResponse
    /\ config = NilConfig
    /\ stdoutIsTerminal = FALSE
    /\ pc = "start"
    /\ output = <<>>
    /\ err = NoError
    /\ MainStarted

\* rootCmd.Execute() runs the steps of runCobra while the process lives
NextMain ==
    \/ ~exited /\ RunCobraLoad
    \/ ~exited /\ RunCobraQuery
    \/ ~exited /\ RunCobraRender
    \/ MainReturn
    \/ Signal
    \/ HandlerReceive
    \/ HandlerExit

SpecMain == InitMain /\ [][NextMain]_vars

----------------------------------------------------------------------------
(* Properties of the renderers *)

\* formatOutput has returned (specification Spec)
Rendered == pc = "rendered"

\* runCobra has rendered the response and written it (specification SpecCLI)
Printed == pc = "returned" /\ ~flags.flagVersion /\ stdout # <<>>

\* s without its style sequences: each runs from an ESC to the next "m"
RECURSIVE StripStyle(_)
StripStyle(s) ==
    LET escapes == {i \in 1..Len(s) : s[i] = ESC}
    IN  IF escapes = {} THEN s
        ELSE LET first == CHOOSE i \in escapes : \A j \in escapes : i <= j
                 ends  == {i \in (first + 1)..Len(s) : s[i] = "m"}
                 last  == IF ends = {} THEN Len(s)
                          ELSE CHOOSE i \in ends : \A j \in ends : i <= j
             IN  SubSeq(s, 1, first - 1) \o StripStyle(SubSeq(s, last + 1, Len(s)))

\* the heading line of a query, with the blank line after it
HeadingLine(query) == <<"#", " ">> \o query \o <<NL, NL>>

\* C1: with Quiet set the output is the answer text and nothing else, in
\* every format and for either value of Heading: the text and markdown
\* renderers return exactly Data.Output and one newline, without a heading
\* line and without a references marker, and the JSON renderer returns only
\* the encoded answer, which decodes to Data.Output.
C1_QuietOnlyAnswer ==
    (Rendered /\ config.Quiet) =>
        /\ err = NoError
        /\ IF config.Format = formatJSON
           THEN /\ UnmarshalToString(output) = [val |-> resp.Data.Output, err |-> NoError]
                /\ output = <<"\"">> \o SubSeq(output, 2, Len(output) - 2) \o <<"\"", NL>>
           ELSE /\ output = resp.Data.Output \o <<NL>>
                /\ ~HasPrefix(output, <<"#", " ">>)
                /\ ~Contains(output, StrReferences)
                /\ ~Contains(output, StrMdReferences)

\* a quiet text rendering of a response with references, heading asked for
C1_Witness ==
    /\ Rendered
    /\ config.Quiet /\ config.Heading
    /\ config.Format = formatText
    /\ shouldUseColor(config)
    /\ Len(resp.Data.References.elems) = 2
    /\ resp.Data.Output # <<>>
    /\ output = resp.Data.Output \o <<NL>>

\* C2: in text format the heading line "# " + Query (styled when color is
\* on) and the blank line after it come first in the output exactly when
\* Heading is set and Quiet is not; otherwise the output starts with
\* Data.Output.
C2_TextHeadingIff ==
    (Rendered /\ config.Format = formatText) =>
        LET plain == StripStyle(output)
            body  == resp.Data.Output \o <<NL>>
        IN  IF config.Heading /\ ~config.Quiet
            THEN /\ HasPrefix(plain, HeadingLine(config.Query) \o body)
                 /\ output[1] \in {"#", ESC}
            ELSE /\ HasPrefix(output, body)
                 /\ ~HasPrefix(plain, HeadingLine(config.Query))

\* a text rendering that starts with the heading of a non-empty query
C2_Witness ==
    /\ Rendered
    /\ config.Format = formatText
    /\ config.Heading /\ ~config.Quiet
    /\ config.Query # <<>>
    /\ HasPrefix(output, HeadingLine(config.Query) \o resp.Data.Output)

\* C3: markdown output begins with "# " + Query and a blank line whenever
\* Quiet is not set, whatever the Heading flag, and the Heading flag does not
\* change the markdown output.
C3_MarkdownHeading ==
    (Rendered /\ config.Format = formatMarkdown) =>
        /\ ~config.Quiet =>
              HasPrefix(output, HeadingLine(config.Query) \o resp.Data.Output \o <<NL>>)
        /\ output = formatOutput(resp, [config EXCEPT !.Heading = ~@]).out

\* a markdown rendering with the heading although the Heading flag is off
C3_Witness ==
    /\ Rendered
    /\ config.Format = formatMarkdown
    /\ ~config.Quiet /\ ~config.Heading
    /\ HasPrefix(output, HeadingLine(config.Query))

\* the member of a decoded object with the given name, if it has one
JSONMember(v, name) ==
    IF v.kind = "object" /\ \E i \in 1..Len(v.keys) : v.keys[i] = name
    THEN v.vals[CHOOSE i \in 1..Len(v.keys) : v.keys[i] = name]
    ELSE [kind |-> "absent"]

\* C4: in full JSON output a response without references has data.references
\* equal to the empty array, never null and never left out, also when the
\* response was decoded from a reply whose references are missing or null.
C4_EmptyReferencesArray ==
    (Printed /\ config.Format = formatJSON /\ ~config.Quiet
       /\ Len(resp.Data.References.elems) = 0) =>
        LET doc == ParseJSON(output)
        IN  /\ doc.ok
            /\ JSONMember(JSONMember(doc.val, KeyData), KeyReferences) = JArray(<<>>)

StrMarkdown == <<"m", "a", "r", "k", "d", "o", "w", "n">>

\* C5 as stated: every format other than "json" and "markdown" renders as
\* "text" does, without error.
C5_AsStated ==
    (Rendered /\ config.Format \notin {formatJSON, StrMarkdown}) =>
        /\ output = formatOutput(resp, [config EXCEPT !.Format = formatText]).out
        /\ err = NoError

\* C5: every format other than "json" and "md" renders as "text" does: the
\* same string and a nil error.
C5_DefaultIsText ==
    (Rendered /\ config.Format \notin {formatJSON, formatMarkdown}) =>
        /\ output = formatOutput(resp, [config EXCEPT !.Format = formatText]).out
        /\ err = NoError

\* the format "markdown", which is not a canonical one, rendered as text
C5_Witness ==
    /\ Rendered
    /\ config.Format = StrMarkdown
    /\ ~config.Quiet
    /\ Len(resp.Data.References.elems) > 0
    /\ output = formatText_output(resp, config)
    /\ output # formatMarkdown_output(resp, config)

\* C6 as stated: "json" gives the JSON renderer's result, "markdown" the
\* markdown renderer's with a nil error, anything else the text renderer's
\* with a nil error.
C6_AsStated ==
    Rendered =>
        CASE config.Format = formatJSON ->
               /\ output = formatJSON_output(resp, config).out
               /\ err = formatJSON_output(resp, config).err
          [] config.Format = StrMarkdown ->
               output = formatMarkdown_output(resp, config) /\ err = NoError
          [] OTHER ->
               output = formatText_output(resp, config) /\ err = NoError

\* C6: the renderer is chosen from config.Format alone: "json" gives the JSON
\* renderer's result and error, "md" the markdown renderer's result with a nil
\* error, anything else the text renderer's result with a nil error.
C6_Dispatch ==
    Rendered =>
        CASE config.Format = formatJSON ->
               /\ output = formatJSON_output(resp, config).out
               /\ err = formatJSON_output(resp, config).err
          [] config.Format = formatMarkdown ->
               output = formatMarkdown_output(resp, config) /\ err = NoError
          [] OTHER ->
               output = formatText_output(resp, config) /\ err = NoError

\* format "md" rendered by the markdown renderer, unlike the text one
C6_Witness ==
    /\ Rendered
    /\ config.Format = formatMarkdown
    /\ ~config.Quiet
    /\ output = formatMarkdown_output(resp, config)
    /\ output # formatText_output(resp, config)

\* the values of --format that name the text, markdown and JSON formats
TextNames ==
    {<<"t", "e", "x", "t">>, <<"T", "e", "x", "t">>, <<"t", "x", "t">>,
     <<" ", "T", "X", "T", "\n">>}

MarkdownNames ==
    {<<"m", "d">>, <<"\t", "M", "D">>, StrMarkdown,
     <<"M", "a", "r", "k", "D", "o", "w", "n", " ">>}

JSONNames == {<<"j", "s", "o", "n">>, <<" ", "J", "S", "O", "N", " ">>}

\* C7: for every --format value that names a format, in any letter case and
\* with surrounding whitespace, the run renders with the renderer named:
\* text and txt with the text renderer, md and markdown with the markdown
\* renderer, json with the JSON renderer; every other value is rejected by
\* loadConfig and never reaches formatOutput.
C7_FormatSelectsRenderer ==
    LET given    == flags.flagFormat
        accepted == given \in TextNames \cup MarkdownNames \cup JSONNames
    IN  /\ Printed =>
              CASE given \in TextNames ->
                     /\ config.Format = formatText
                     /\ output = formatText_output(resp, config)
                [] given \in MarkdownNames ->
                     /\ config.Format = formatMarkdown
                     /\ output = formatMarkdown_output(resp, config)
                [] given \in JSONNames ->
                     /\ config.Format = formatJSON
                     /\ output = formatJSON_output(resp, config).out
                [] OTHER -> FALSE
        /\ pc \in {"query", "render"} => accepted
        /\ (pc = "returned" /\ ~flags.flagVersion /\ ~accepted) =>
              /\ err # NoError
              /\ config = NilConfig
              /\ stdout = <<>> /\ output = <<>>
        /\ (pc = "returned" /\ err.msg = "invalid value for --format") => ~accepted

\* --format "MarkDown " rendered by the markdown renderer
C7_Witness ==
    /\ Printed
    /\ flags.flagFormat = <<"M", "a", "r", "k", "D", "o", "w", "n", " ">>
    /\ ~config.Quiet
    /\ Len(resp.Data.References.elems) > 0
    /\ output = formatMarkdown_output(resp, config)
    /\ output # formatText_output(resp, config)

\* the references are rendered: neither quiet nor JSON
ReferencesShown ==
    /\ Rendered
    /\ ~config.Quiet
    /\ config.Format \in {formatText, formatMarkdown}

C9_JSONRoundTrip ==
    (Rendered /\ config.Format = formatJSON) =>
        LET doc == ParseJSON(output)
        IN  /\ err = NoError
            /\ Len(output) >= 2
            /\ output[Len(output)] = NL /\ output[Len(output) - 1] # NL
            /\ doc.ok
            /\ IF config.Quiet
               THEN UnmarshalToString(output) =
                        [val |-> resp.Data.Output, err |-> NoError]
               ELSE LET meta == JSONMember(doc.val, KeyMeta)
                        data == JSONMember(doc.val, KeyData)
                        refs == JSONMember(data, KeyReferences)
                    IN  /\ doc.val.kind = "object"
                        /\ doc.val.keys = <<KeyMeta, KeyData>>
                        /\ meta.kind = "object" /\ meta.keys = <<KeyID, KeyNode, KeyMS>>
                        /\ data.kind = "object"
                        /\ data.keys = <<KeyOutput, KeyTokens, KeyReferences>>
                        /\ refs.kind = "array" =>
                              \A i \in 1..Len(refs.elems) :
                                 /\ refs.elems[i].kind = "object"
                                 /\ refs.elems[i].keys = <<KeyTitle, KeySnippet, KeyURL>>
                        /\ UnmarshalResponse(output) = [val |-> resp, err |-> NoError]

\* a full JSON rendering of two different references and of an answer with
\* a character that JSON escapes
C9_Witness ==
    /\ Rendered
    /\ config.Format = formatJSON /\ ~config.Quiet
    /\ Len(resp.Data.References.elems) = 2
    /\ resp.Data.References.elems[1] # resp.Data.References.elems[2]
    /\ resp.Data.Output \in {<<"\"">>, <<"<">>, <<NL>>}
    /\ UnmarshalResponse(output).val = resp

\* C10: quiet JSON output is Data.Output as one JSON string value and a
\* trailing newline: it decodes to exactly Data.Output, and it is a string,
\* not an object, so no meta, tokens or references member is written
\* whatever the response holds.
C10_QuietJSONString ==
    (Rendered /\ config.Format = formatJSON /\ config.Quiet) =>
        /\ err = NoError
        /\ Len(output) >= 3
        /\ output[Len(output)] = NL
        /\ \A i \in 1..(Len(output) - 1) : output[i] # NL
        /\ LET doc == ParseJSON(SubSeq(output, 1, Len(output) - 1))
           IN  /\ doc.ok
               /\ doc.val = JString(resp.Data.Output)
               /\ doc.pos = Len(output)

\* a quiet JSON rendering of a response that has references
C10_Witness ==
    /\ Rendered
    /\ config.Format = formatJSON /\ config.Quiet
    /\ Len(resp.Data.References.elems) > 0
    /\ resp.Data.Output # <<>>
    /\ ParseJSON(output).val = JString(resp.Data.Output)

----------------------------------------------------------------------------
(* Properties of the color policy *)

\* the start of every style sequence
HasEscape(s) == \E i \in 1..Len(s) : s[i] = ESC

C12_NoColorDisables ==
    (Printed /\ env.envNoColor /\ config.Format = formatText) => ~HasEscape(output)

\* the style codes the renderers pass to colorize
StyleCodes == {ansiBold, ansiBoldBlue, ansiCyan, ansiYellow}

\* C13: colorize(text, code, useColor) is text itself when useColor is
\* false, and code, text and the reset sequence, in that order, when useColor
\* is true, also for an empty text; checked for the query and the answer of
\* the call and for the heading the text renderer styles.
C13_Colorize ==
    Rendered =>
        LET reset == <<ESC, "[", "0", "m">>
            title == <<"#", " ">> \o config.Query
        IN  /\ \A text \in {config.Query, resp.Data.Output, <<>>} :
                  \A code \in StyleCodes :
                     /\ colorize(text, code, FALSE) = text
                     /\ colorize(text, code, TRUE) = code \o text \o reset
            /\ (config.Format = formatText /\ config.Heading /\ ~config.Quiet) =>
                  IF shouldUseColor(config)
                  THEN HasPrefix(output,
                           <<ESC, "[", "1", ";", "3", "4", "m">> \o title \o reset
                           \o <<NL, NL>>)
                  ELSE HasPrefix(output, title \o <<NL, NL>>)

\* a styled heading for an empty query, and an empty text between a code
\* and the reset sequence
C13_Witness ==
    /\ Rendered
    /\ config.Format = formatText /\ config.Heading /\ ~config.Quiet
    /\ config.Query = <<>>
    /\ shouldUseColor(config)
    /\ HasPrefix(output, ansiBoldBlue \o <<"#", " ">> \o ansiReset)
    /\ colorize(config.Query, ansiBold, TRUE) = <<ESC, "[", "1", "m", ESC, "[", "0", "m">>

----------------------------------------------------------------------------
(* Properties of the references *)

\* the number of newlines in s
Newlines(s) == Cardinality({i \in 1..Len(s) : s[i] = NL})

\* what the text renderer writes before the references block, unstyled
TextBody ==
    (IF config.Heading /\ ~config.Quiet THEN HeadingLine(config.Query) ELSE <<>>)
    \o resp.Data.Output \o <<NL>>

PlainTextLine(n, ref) ==
    IntToString(n) \o <<".", " ">> \o ref.Title \o <<" ", "-", " ">> \o ref.URL
    \o (IF ref.Snippet = <<>> THEN <<>> ELSE <<" ", "-", " ">> \o ref.Snippet)
    \o <<NL>>

\* the lines of the first n references
RECURSIVE PlainTextList(_, _)
PlainTextList(refs, n) ==
    IF n = 0 THEN <<>> ELSE PlainTextList(refs, n - 1) \o PlainTextLine(n, refs[n])

MarkdownItem(n, ref) ==
    IntToString(n) \o <<".", " ", "[">> \o ref.Title \o <<"]", "(">> \o ref.URL
    \o <<")", NL>>
    \o (IF ref.Snippet = <<>> THEN <<>>
        ELSE <<" ", " ", " ", ">", " ">> \o ref.Snippet \o <<NL>>)

\* the lines of the first n references in markdown
RECURSIVE MarkdownList(_, _)
MarkdownList(refs, n) ==
    IF n = 0 THEN <<>> ELSE MarkdownList(refs, n - 1) \o MarkdownItem(n, refs[n])

\* C16: in markdown format, not quiet, the "## References" section is written
\* exactly when the response has a reference, and then lists every
\* reference in the order received, numbered from 1, as
\* "<n>. [<title>](<url>)", title and URL as they are given.
C16_MarkdownReferences ==
    (Rendered /\ config.Format = formatMarkdown /\ ~config.Quiet) =>
        LET refs  == resp.Data.References.elems
            start == HeadingLine(config.Query) \o resp.Data.Output \o <<NL>>
        IN  /\ Contains(output, <<"#", "#", " ", "R", "e", "f", "e", "r", "e", "n",
                                  "c", "e", "s">>) <=> Len(refs) > 0
            /\ output = IF Len(refs) = 0 THEN start
                        ELSE start \o <<NL>> \o StrMdReferences \o <<NL, NL>>
                             \o MarkdownList(refs, Len(refs))
            /\ \A i \in 1..Len(refs) :
                  Contains(output,
                      <<NL>> \o IntToString(i) \o <<".", " ", "[">> \o refs[i].Title
                      \o <<"]", "(">> \o refs[i].URL \o <<")", NL>>)

\* a title with brackets, second in the list
C16_Witness ==
    /\ Rendered
    /\ config.Format = formatMarkdown /\ ~config.Quiet
    /\ Len(resp.Data.References.elems) = 2
    /\ resp.Data.References.elems[1].Title = <<"T">>
    /\ Contains(output, <<NL, "1", ".", " ", "[", "T", "]", "(", "u", ")", NL,
                          "2", ".", " ", "[", "[", "b", "]", "]", "(", "v", ")", NL>>)

----------------------------------------------------------------------------
(* Properties of the errors *)

----------------------------------------------------------------------------
(* Properties of main *)

\* the exit code agrees with how the process ended
ExitCodeExplained ==
    exited =>
        /\ exitCode \in {0, 1, 130}
        /\ exitCode = 130 => delivered # {} /\ handler = "received"
        /\ exitCode = 1 => pc = "returned" /\ err # NoError
        /\ exitCode = 0 => pc = "returned" /\ err = NoError

\* C18: however the signal handler and the command interleave, the process
\* ends with one exit code, which is 0, 1 or 130 and does not change: 130
\* only after SIGINT or SIGTERM was received, 1 only when the command
\* returned an error, 0 only when it returned none.
C18_ExitCode ==
    /\ []ExitCodeExplained
    /\ [][exited => (exited' /\ exitCode' = exitCode)]_vars

\* a signal received while the command had already returned an error, and
\* the handler the first to exit
C18_Witness ==
    /\ exited
    /\ exitCode = 130
    /\ pc = "returned" /\ err # NoError
    /\ delivered = {"SIGTERM"}

----------------------------------------------------------------------------
(* Properties of the configuration *)

\* loadConfig has run (specification SpecCLI)
Loaded == pc # "start" /\ ~flags.flagVersion

\* C19: normalizeFormat lowercases and trims its input, then maps "txt" to
\* "text" and "markdown" to "md", and returns any other value lowercased and
\* trimmed; isValidFormat is true exactly for "text", "md" and "json", with
\* case; a configuration that was loaded holds the normalized format.
C19_NormalizeFormat ==
    Loaded =>
        LET given    == flags.flagFormat
            expected == CASE given \in TextNames -> <<"t", "e", "x", "t">>
                          [] given \in MarkdownNames -> <<"m", "d">>
                          [] given \in JSONNames -> <<"j", "s", "o", "n">>
                          [] given = <<" ", "X", "m", "l">> -> <<"x", "m", "l">>
                          [] OTHER -> given
            valid    == {<<"t", "e", "x", "t">>, <<"m", "d">>, <<"j", "s", "o", "n">>}
        IN  /\ normalizeFormat(given) = expected
            /\ \A f \in {given, expected, <<"t", "x", "t">>, <<"M", "D">>,
                         <<"J", "s", "o", "n">>, StrMarkdown} :
                  isValidFormat(f) <=> f \in valid
            /\ config # NilConfig => config.Format = expected /\ expected \in valid
            /\ (err.msg = "invalid value for --format") <=>
                  /\ expected \notin valid
                  /\ env.envAPIKey # <<>>
                  /\ getQuery(env.args, env).err = NoError

\* an unknown format in upper case and with a space, normalized and rejected
C19_Witness ==
    /\ Loaded
    /\ flags.flagFormat = <<" ", "X", "m", "l">>
    /\ normalizeFormat(flags.flagFormat) = <<"x", "m", "l">>
    /\ err = ErrInvalidFormat(flags.flagFormat)

\* the query the arguments give: joined with spaces and trimmed
ArgsQuery ==
    CASE env.args = <<<<"q">>>> -> <<"q">>
      [] env.args = <<<<" ", "a">>, <<"b", " ">>>> -> <<"a", " ", "b">>
      [] OTHER -> <<>>

\* the query standard input gives, trimmed, when it is read
StdinQuery ==
    IF env.stdinIsTerminal \/ env.stdinFails THEN <<>>
    ELSE IF env.stdin = <<" ", "s", "\n">> THEN <<"s">> ELSE <<>>

----------------------------------------------------------------------------
(* Configuration loading and the API client under SpecCLI *)

\* C21: the API key is the --api-key flag when that is non-empty and
\* KAGI_API_KEY otherwise; when both are empty loadConfig returns the
\* "no API key provided" error and no Config, whatever the other flags are,
\* and standard input has not been read
C21_APIKey ==
    Loaded =>
        /\ (config # NilConfig /\ flags.flagAPIKey # <<>>
                => config.APIKey = flags.flagAPIKey)
        /\ (config # NilConfig /\ flags.flagAPIKey = <<>>
                => config.APIKey = env.envAPIKey /\ env.envAPIKey # <<>>)
        /\ (flags.flagAPIKey = <<>> /\ env.envAPIKey = <<>>
                => /\ config = NilConfig
                   /\ err = [msg |-> "no API key provided"]
                   /\ pc = "returned"
                   /\ ~env.stdinRead
                   /\ stdout = <<>> /\ stderr = <<>>)
        /\ (flags.flagAPIKey # <<>> \/ env.envAPIKey # <<>>
                => err # [msg |-> "no API key provided"])

\* no key anywhere, an invalid --format and a query waiting on standard
\* input: the run has returned the key error
C21_Witness ==
    /\ pc = "returned" /\ ~flags.flagVersion
    /\ flags.flagAPIKey = <<>> /\ env.envAPIKey = <<>>
    /\ ~isValidFormat(normalizeFormat(flags.flagFormat))
    /\ env.args = <<>> /\ ~env.stdinIsTerminal /\ env.stdin # <<>>
    /\ err = ErrNoAPIKey

\* a fully validated Config
ConfigValidated(c) ==
    /\ c.APIKey # <<>>
    /\ c.Query # <<>> /\ ~IsSpace(c.Query[1]) /\ ~IsSpace(c.Query[Len(c.Query)])
    /\ c.Format \in {<<"t", "e", "x", "t">>, <<"m", "d">>, <<"j", "s", "o", "n">>}
    /\ c.Timeout > 0
    /\ c.Color \in {<<"a", "u", "t", "o">>, <<"a", "l", "w", "a", "y", "s">>,
                    <<"n", "e", "v", "e", "r">>}
    /\ (c.Debug => c.Verbose)

\* the command line and the environment break one of loadConfig's rules
FlagsViolate ==
    \/ flags.flagAPIKey = <<>> /\ env.envAPIKey = <<>>
    \/ ArgsQuery = <<>> /\ StdinQuery = <<>>
    \/ ToLower(TrimSpace(flags.flagFormat)) \notin
           {<<"t", "e", "x", "t">>, <<"t", "x", "t">>, <<"m", "d">>,
            <<"m", "a", "r", "k", "d", "o", "w", "n">>, <<"j", "s", "o", "n">>}
    \/ flags.flagTimeout <= 0
    \/ ToLower(TrimSpace(flags.flagColor)) \notin
           {<<"a", "u", "t", "o">>, <<"a", "l", "w", "a", "y", "s">>,
            <<"n", "e", "v", "e", "r">>}

\* C22: every Config loadConfig returns is fully validated (key and query
\* non-empty, query trimmed, format one of text, md, json, timeout positive,
\* color one of auto, always, never, Debug implies Verbose); a command line
\* that breaks one of these gives an error and a nil Config, and then no
\* request is sent and nothing is rendered
C22_ConfigValidated ==
    Loaded =>
        /\ (config # NilConfig => ConfigValidated(config) /\ ~FlagsViolate)
        /\ (config = NilConfig =>
                /\ FlagsViolate
                /\ err # NoError
                /\ pc = "returned"
                /\ resp = ZeroResponse
                /\ output = <<>>
                /\ stdout = <<>>)
        /\ (pc \in {"query", "render"} => config # NilConfig)
        /\ (config # NilConfig =>
                /\ config.Debug = flags.flagDebug
                /\ config.Verbose = (flags.flagVerbose \/ flags.flagDebug))

\* --debug alone loads a Config with Verbose set; the run went on to the API
C22_Witness ==
    /\ pc = "query"
    /\ flags.flagDebug /\ ~flags.flagVerbose
    /\ ConfigValidated(config)
    /\ config.Verbose /\ config.Debug

\* the API call has returned (specification SpecCLI)
Queried == Loaded /\ config # NilConfig /\ pc \in {"render", "returned"}

\* the request got a reply with a status in 200..299 and its body was read
ReplySuccess ==
    reply.netErr = "none" /\ ~reply.readFails /\ reply.status \in 200..299

\* C23: every Response queryKagi returns without error has a non-empty
\* Data.Output; a 2xx reply whose body does not parse, or parses with an empty
\* output, gives an error and a nil Response; the renderer is never called
\* with an empty output
C23_NonEmptyOutput ==
    Queried =>
        /\ (err = NoError => resp.Data.Output # <<>>)
        /\ (resp # ZeroResponse => resp.Data.Output # <<>>)
        /\ (output # <<>> \/ stdout # <<>> => resp.Data.Output # <<>>)
        /\ (ReplySuccess /\ reply.body \in {BodyInvalid, <<>>}
                => /\ err = [msg |-> "failed to parse API response"]
                   /\ resp = ZeroResponse /\ pc = "returned"
                   /\ output = <<>> /\ stdout = <<>>)
        /\ (ReplySuccess /\ reply.body = BodyEmptyOutput
                => /\ err = [msg |-> "API returned empty response"]
                   /\ resp = ZeroResponse /\ pc = "returned"
                   /\ output = <<>> /\ stdout = <<>>)

\* a 200 reply with an empty output was refused
C23_Witness ==
    /\ Queried /\ pc = "returned"
    /\ reply.status = 200 /\ reply.body = BodyEmptyOutput
    /\ err = ErrEmpty /\ resp = ZeroResponse

----------------------------------------------------------------------------
(* The order of the steps of runCobra under SpecCLI *)

\* C24: on the query path the renderer is called once, after the API call
\* succeeded; standard output is written at most once, with the rendered
\* output, only after loading, the API call and rendering all succeeded; on
\* every error path nothing is written to standard output
C24_RenderOnce ==
    /\ [](~flags.flagVersion =>
            /\ Len(stdout) <= 1
            /\ (stdout # <<>> =>
                    /\ pc = "returned" /\ err = NoError
                    /\ config # NilConfig /\ resp # ZeroResponse
                    /\ stdout = <<output>>)
            /\ (output # <<>> => pc = "returned" /\ resp # ZeroResponse)
            /\ (err # NoError => pc = "returned" /\ stdout = <<>> /\ output = <<>>)
            /\ (pc = "returned" /\ err = NoError => stdout # <<>>))
    /\ [][output' # output =>
             /\ pc = "render" /\ pc' = "returned"
             /\ output = <<>> /\ stdout = <<>>
             /\ err = NoError /\ resp # ZeroResponse /\ resp' = resp]_vars
    /\ [][stdout' # stdout /\ ~flags.flagVersion =>
             /\ pc = "render" /\ output' # output
             /\ err' = NoError /\ stdout' = <<output'>>]_vars

\* a run that loaded its configuration, got an answer and printed it
C24_Witness ==
    /\ pc = "returned" /\ ~flags.flagVersion
    /\ config # NilConfig /\ resp # ZeroResponse /\ err = NoError
    /\ Len(stdout) = 1 /\ stdout[1] = output /\ output # <<>>

----------------------------------------------------------------------------
(* The API key and the two streams *)

\* what a whole run of runCobra writes, <<stdout, stderr>>, on the command
\* line f in the environment e, the API answering with reply
RunStreams(f, e) ==
    IF f.flagVersion THEN <<VersionOutput(f.flagQuiet), <<>>>>
    ELSE LET rendered(cfg, got, r) ==
                 <<IF r.err = NoError THEN <<r.out>> ELSE <<>>,
                   DebugOutput(cfg)
                   \o (IF cfg.Verbose \/ cfg.Debug
                       THEN <<StrResponseReceived \o IntToString(got.resp.Meta.MS)
                              \o <<"m", "s", ")", NL>>>>
                       ELSE <<>>)>>
             queried(cfg, got) ==
                 IF got.err # NoError THEN <<<<>>, DebugOutput(cfg)>>
                 ELSE rendered(cfg, got, formatOutput(got.resp, cfg))
             loaded(l) ==
                 IF l.err # NoError THEN <<<<>>, <<>>>>
                 ELSE queried(l.config,
                              queryKagi(l.config.APIKey, l.config.Query,
                                        l.config.Timeout, reply))
         IN  loaded(loadConfig(f, e))

\* other values of the API key
OtherKeys ==
    {<<"k">>, <<"e">>, <<"q">>, <<"*", "*", "*">>, <<"D", "e", "b", "u", "g">>}

----------------------------------------------------------------------------
(* The --version branch *)

\* C26: with --version runCobra prints the version information and returns
\* success without loading the configuration, reading a query or calling the
\* API, so also without a key or a query and with invalid flags; with --quiet
\* it prints the bare version string, otherwise 'kagi v<version>' and the
\* repository and issue URLs
C26_Version ==
    flags.flagVersion =>
        /\ pc \in {"start", "returned"}
        /\ config = NilConfig /\ resp = ZeroResponse /\ output = <<>>
        /\ ~env.stdinRead
        /\ stderr = <<>>
        /\ err = NoError
        /\ (pc = "start" => stdout = <<>>)
        /\ (pc = "returned" /\ flags.flagQuiet => stdout = <<<<"d", "e", "v", "\n">>>>)
        /\ (pc = "returned" /\ ~flags.flagQuiet =>
               stdout =
                 <<<<"k", "a", "g", "i", " ", "v", "d", "e", "v", "\n">>,
                   <<"R", "e", "p", "o", "s", "i", "t", "o", "r", "y", ":", " ", "h", "t",
                     "t", "p", "s", ":", "/", "/", "g", "i", "t", "h", "u", "b", ".", "c",
                     "o", "m", "/", "g", "r", "a", "n", "t", "c", "a", "r", "t", "h", "e",
                     "w", "/", "k", "a", "g", "i", "\n">>,
                   <<"R", "e", "p", "o", "r", "t", " ", "i", "s", "s", "u", "e", "s", ":",
                     " ", "h", "t", "t", "p", "s", ":", "/", "/", "g", "i", "t", "h", "u",
                     "b", ".", "c", "o", "m", "/", "g", "r", "a", "n", "t", "c", "a", "r",
                     "t", "h", "e", "w", "/", "k", "a", "g", "i", "/", "i", "s", "s", "u",
                     "e", "s", "/", "n", "e", "w", "\n">>>>)

\* --version without a key or a query and with a query waiting on standard
\* input: the three lines are printed
C26_Witness ==
    /\ flags.flagVersion /\ ~flags.flagQuiet /\ pc = "returned"
    /\ flags.flagAPIKey = <<>> /\ env.envAPIKey = <<>>
    /\ env.args = <<>> /\ ~env.stdinIsTerminal
    /\ flags.flagTimeout = 0
    /\ Len(stdout) = 3

----------------------------------------------------------------------------
(* API errors *)

\* an API error body with two entries
TwoErrors ==
    <<"{", "\"", "e", "r", "r", "o", "r", "\"", ":", "[", "{", "\"", "c",
    "o", "d", "e", "\"", ":", "7", ",", "\"", "m", "s", "g", "\"", ":",
    "\"", "x", "\"", "}", ",", "{", "\"", "c", "o", "d", "e", "\"", ":",
    "8", ",", "\"", "m", "s", "g", "\"", ":", "\"", "y", "\"", "}", "]",
    "}">>

\* the error the claim gives for the reply: by the status when the body
\* parses as an API error with an entry, of which code and msg are the first
ErrorStated(code, msg) ==
    CASE reply.status \in {401, 403} ->
           [msg |-> "API request failed: Invalid API key", code |-> code]
      [] reply.status = 429 ->
           [msg |-> "API rate limit exceeded, try again later"]
      [] OTHER ->
           [msg |-> "API request failed", code |-> code, text |-> msg]

----------------------------------------------------------------------------
(* Standard error *)

\* the 'Querying' line
LineQuerying ==
    <<"Q", "u", "e", "r", "y", "i", "n", "g", " ", "K", "a", "g", "i",
    " ", "F", "a", "s", "t", "G", "P", "T", " ", "A", "P", "I", ".",
    ".", ".", "\n">>

\* the 'Response received' line: the replies took 120 ms or 5 ms
LineReceived ==
    <<"R", "e", "s", "p", "o", "n", "s", "e", " ", "r", "e", "c", "e", "i", "v",
      "e", "d", " ", "(">>
    \o (IF reply.body = BodyFull THEN <<"1", "2", "0">> ELSE <<"5">>)
    \o <<"m", "s", ")", "\n">>

\* the four debug lines of a default command line with the query q
LinesDebug(q) ==
    <<<<"D", "e", "b", "u", "g", ":", " ", "A", "P", "I", " ", "K", "e",
      "y", ":", " ", "*", "*", "*", "\n">>,
      <<"D", "e", "b", "u", "g", ":", " ", "Q", "u", "e", "r", "y", ":",
      " ">>
        \o q \o <<"\n">>,
      <<"D", "e", "b", "u", "g", ":", " ", "F", "o", "r", "m", "a", "t",
      ":", " ", "t", "e", "x", "t", "\n">>,
      <<"D", "e", "b", "u", "g", ":", " ", "T", "i", "m", "e", "o", "u",
      "t", ":", " ", "3", "0", "\n">>>>

\* the lines written before the API call
LinesBefore ==
    (IF flags.flagDebug THEN LinesDebug(config.Query) ELSE <<>>)
    \o (IF flags.flagVerbose \/ flags.flagDebug THEN <<LineQuerying>> ELSE <<>>)

\* the lines written once the API has answered
LinesAfter ==
    LinesBefore
    \o (IF flags.flagVerbose \/ flags.flagDebug THEN <<LineReceived>> ELSE <<>>)

----------------------------------------------------------------------------
(* Styling and the end of the output *)

\* the position of the first c in s from position i on, Len(s) + 1 if none
RECURSIVE IndexFrom(_, _, _)
IndexFrom(s, c, i) ==
    IF i > Len(s) THEN Len(s) + 1
    ELSE IF s[i] = c THEN i
    ELSE IndexFrom(s, c, i + 1)

\* the styled stretches of s, in order, each as <<code, text>>: a code runs
\* from an ESC to the next "m", the text from there to the next ESC, where
\* the reset sequence starts
RECURSIVE StyledStretches(_)
StyledStretches(s) ==
    LET start == IndexFrom(s, ESC, 1)
    IN  IF start > Len(s) THEN <<>>
        ELSE LET codeEnd  == IndexFrom(s, "m", start)
                 reset    == IndexFrom(s, ESC, codeEnd + 1)
                 resetEnd == IndexFrom(s, "m", reset)
             IN  <<<<SubSeq(s, start, codeEnd), SubSeq(s, codeEnd + 1, reset - 1),
                     SubSeq(s, reset, resetEnd)>>>>
                 \o StyledStretches(SubSeq(s, resetEnd + 1, Len(s)))

\* the stretches the claim allows: the heading, the 'References:' header,
\* and the number and the URL of each reference
StretchesStated ==
    LET reset == <<ESC, "[", "0", "m">>
        refs  == resp.Data.References.elems
    IN  (IF config.Heading /\ ~config.Quiet
         THEN <<<<(<<ESC, "[", "1", ";", "3", "4", "m">>),
                  <<"#", " ">> \o config.Query, reset>>>>
         ELSE <<>>)
        \o (IF ~config.Quiet /\ Len(refs) > 0
            THEN <<<<(<<ESC, "[", "1", "m">>),
                     <<"R", "e", "f", "e", "r", "e", "n", "c", "e", "s", ":">>,
                     reset>>>>
                 \o [k \in 1..(2 * Len(refs)) |->
                        IF k % 2 = 1
                        THEN <<(<<ESC, "[", "3", "3", "m">>),
                               <<(<<"1", "2", "3", "4">>)[(k + 1) \div 2], ".", " ">>,
                               reset>>
                        ELSE <<(<<ESC, "[", "3", "6", "m">>), refs[k \div 2].URL,
                               reset>>]
            ELSE <<>>)

\* C29: in the text renderer color only adds styling: the colored output
\* without its style and reset sequences is exactly the uncolored output;
\* the styled stretches are the heading, the 'References:' header and each
\* reference's number and URL, never the answer, a title or a snippet; with
\* Quiet set there is no escape sequence at all
C29_ColorOnlyStyles ==
    (Rendered /\ config.Format \notin {formatJSON, formatMarkdown}) =>
        LET plain == formatText_output(resp, [config EXCEPT !.Color = colorNever])
        IN  /\ ~HasEscape(plain)
            /\ StripStyle(output) = plain
            /\ (shouldUseColor(config) => StyledStretches(output) = StretchesStated)
            /\ (~shouldUseColor(config) => output = plain)
            /\ (config.Quiet => ~HasEscape(output))

\* a colored rendering with a heading and two references, one with a
\* snippet: six styled stretches
C29_Witness ==
    /\ Rendered /\ config.Format = formatText
    /\ config.Color = colorAlways /\ config.Heading /\ ~config.Quiet
    /\ config.Query # <<>>
    /\ Len(resp.Data.References.elems) = 2
    /\ resp.Data.References.elems[2].Snippet # <<>>
    /\ Len(StyledStretches(output)) = 6

\* C30: every successful render is non-empty and ends with a newline, in
\* every format, with every flag, for every Response, one with an empty
\* output and no references included
C30_EndsWithNewline ==
    (Rendered /\ err = NoError) =>
        /\ output # <<>>
        /\ Len(output) >= 1 + Len(resp.Data.Output)
        /\ output[Len(output)] = "\n"

\* the text rendering of an empty answer without references and without a
\* heading: the newline alone
C30_Witness ==
    /\ Rendered /\ err = NoError
    /\ resp.Data.Output = <<>> /\ resp.Data.References.elems = <<>>
    /\ config.Format = formatText /\ ~config.Heading
    /\ output = <<"\n">>

====
